---- MODULE Spec2Model ----
(***************************************************************************)
(* A model of the Trust URI validator browser extension:                   *)
(*   - src/src/xpoc-lib.ts   : the resolution engine (lookupTrustUri)      *)
(*   - src/src/background.ts : the message handlers and the result cache   *)
(*   - src/src/context.ts    : the context-menu wiring (clickedText)       *)
(*   - src/unnamed/part_001  : getLocalStorage / setLocalStorage           *)
(*                                                                         *)
(* Strings are sequences of one-character strings, so that every string    *)
(* operation of the code (replace, trim, split, includes, startsWith,      *)
(* toLowerCase, URL parsing) is computed on the characters.                *)
(***************************************************************************)
EXTENDS Integers, Sequences, FiniteSets, TLC

(***************************************************************************)
(* JavaScript string primitives                                            *)
(***************************************************************************)

\* JS undefined / a value that is absent
undefined == <<"undefined">>

StartsWith(s, p) == Len(s) >= Len(p) /\ SubSeq(s, 1, Len(p)) = p

EndsWith(s, p) == Len(s) >= Len(p) /\ SubSeq(s, Len(s) - Len(p) + 1, Len(s)) = p

\* String.prototype.indexOf, 1-based; 0 when p does not occur in s
IndexOf(s, p) ==
    LET hits == {i \in 1..(Len(s) - Len(p) + 1) : SubSeq(s, i, i + Len(p) - 1) = p}
    IN IF hits = {} THEN 0 ELSE CHOOSE i \in hits : \A j \in hits : i <= j

\* String.prototype.includes
Includes(s, p) == IndexOf(s, p) # 0

\* String.prototype.replace(p, r) with a string pattern: the first occurrence only
ReplaceFirst(s, p, r) ==
    LET i == IndexOf(s, p)
    IN IF i = 0 THEN s
       ELSE SubSeq(s, 1, i - 1) \o r \o SubSeq(s, i + Len(p), Len(s))

\* String.prototype.replace(/^p/, r)
ReplacePrefix(s, p, r) ==
    IF StartsWith(s, p) THEN r \o SubSeq(s, Len(p) + 1, Len(s)) ELSE s

\* String.prototype.replace(/p$/, '')
DropSuffix(s, p) ==
    IF EndsWith(s, p) THEN SubSeq(s, 1, Len(s) - Len(p)) ELSE s

UpperCase == {"A", "B", "C", "E", "M", "O", "R", "S", "X", "Y"}

LowerChar(c) ==
    CASE c = "A" -> "a" [] c = "B" -> "b" [] c = "C" -> "c" [] c = "E" -> "e"
      [] c = "M" -> "m" [] c = "O" -> "o" [] c = "R" -> "r" [] c = "S" -> "s"
      [] c = "X" -> "x" [] c = "Y" -> "y" [] OTHER -> c

\* String.prototype.toLowerCase
ToLowerCase(s) == [i \in 1..Len(s) |-> LowerChar(s[i])]

WhiteSpace == {" ", "\t", "\r"}

RECURSIVE TrimStart(_)
TrimStart(s) ==
    IF s # <<>> /\ Head(s) \in WhiteSpace THEN TrimStart(Tail(s)) ELSE s

RECURSIVE TrimEnd(_)
TrimEnd(s) ==
    IF s # <<>> /\ s[Len(s)] \in WhiteSpace
    THEN TrimEnd(SubSeq(s, 1, Len(s) - 1)) ELSE s

\* String.prototype.trim
Trim(s) == TrimEnd(TrimStart(s))

\* String.prototype.split(sep) for a one-character separator
RECURSIVE Split(_, _)
Split(s, sep) ==
    LET i == IndexOf(s, <<sep>>)
    IN IF i = 0 THEN <<s>>
       ELSE <<SubSeq(s, 1, i - 1)>> \o Split(SubSeq(s, i + 1, Len(s)), sep)

(***************************************************************************)
(* String constants of the code                                            *)
(***************************************************************************)

HTTPS == <<"h", "t", "t", "p", "s", ":", "/", "/">>
TRUST == <<"t", "r", "u", "s", "t", ":", "/", "/">>
WWW == <<"w", "w", "w", ".">>
WELL_KNOWN == <<"/", ".", "w", "e", "l", "l", "-", "k", "n", "o", "w", "n", "/", "t", "r", "u", "s", "t", ".", "t", "x", "t">>
s_member == <<"m", "e", "m", "b", "e", "r">>
s_belongto == <<"b", "e", "l", "o", "n", "g", "t", "o">>
s_control == <<"c", "o", "n", "t", "r", "o", "l">>
s_controlledby == <<"c", "o", "n", "t", "r", "o", "l", "l", "e", "d", "b", "y">>
s_social == <<"s", "o", "c", "i", "a", "l">>
s_vendor == <<"v", "e", "n", "d", "o", "r">>
s_customer == <<"c", "u", "s", "t", "o", "m", "e", "r">>
s_disclosure == <<"d", "i", "s", "c", "l", "o", "s", "u", "r", "e">>
s_contact == <<"c", "o", "n", "t", "a", "c", "t">>
s_datatrainingallowed == <<"d", "a", "t", "a", "t", "r", "a", "i", "n", "i", "n", "g", "a", "l", "l", "o", "w", "e", "d">>
s_yes == <<"y", "e", "s">>
VERSION == "trust.txt-draft00"

(***************************************************************************)
(* new URL(url): absolute https URLs parse; a string without a scheme      *)
(* makes the constructor throw a TypeError.                                *)
(***************************************************************************)

UrlParses(url) ==
    /\ StartsWith(url, HTTPS)
    /\ Len(url) > Len(HTTPS)
    /\ url[Len(HTTPS) + 1] \notin {"/", "?"}

\* what follows the scheme
UrlRest(url) == SubSeq(url, Len(HTTPS) + 1, Len(url))

\* 1-based position of the first character of s that is in set cs, Len(s)+1 if none
FirstOf(s, cs) ==
    LET hits == {i \in 1..Len(s) : s[i] \in cs}
    IN IF hits = {} THEN Len(s) + 1 ELSE CHOOSE i \in hits : \A j \in hits : i <= j

\* URL.hostname (the host is lower-cased by the parser)
UrlHostname(url) ==
    LET rest == UrlRest(url)
    IN ToLowerCase(SubSeq(rest, 1, FirstOf(rest, {"/", "?"}) - 1))

\* URL.origin
UrlOrigin(url) == HTTPS \o UrlHostname(url)

\* URL.pathname ("/" when the URL has no path)
UrlPathname(url) ==
    LET rest == UrlRest(url)
        from == FirstOf(rest, {"/", "?"})
        to   == FirstOf(rest, {"?"})
        path == SubSeq(rest, from, to - 1)
    IN IF path = <<>> THEN <<"/">> ELSE path

(***************************************************************************)
(* xpoc-lib.ts                                                             *)
(***************************************************************************)

\* a variant of getBaseURL that keeps the trailing slash (sensitivity of C7)
getBaseURL_keepSlash(url) == UrlOrigin(url) \o UrlPathname(url)

\* getBaseURL: origin + pathname (queryParams is always empty), one trailing
\* slash removed
getBaseURL(url) == DropSuffix(UrlOrigin(url) \o UrlPathname(url), <<"/">>)

getUrlFromUri(uri) ==
    DropSuffix(DropSuffix(ReplacePrefix(uri, TRUST, HTTPS), <<"!">>), <<"/">>)
        \o WELL_KNOWN

EmptyTrustTxtFile ==
    [member |-> <<>>, belongto |-> <<>>, control |-> <<>>, controlledby |-> <<>>,
     social |-> <<>>, vendor |-> <<>>, customer |-> <<>>, disclosure |-> <<>>,
     contact |-> <<>>, datatrainingallowed |-> FALSE]

\* one iteration of the line loop of parseTrustTxt
parseLine(file, line) ==
    LET cleanedLine == Trim(line)
        parts == Split(cleanedLine, "=")
        variable == parts[1]
        value == IF Len(parts) >= 2 THEN parts[2] ELSE undefined
        cleanedVariable == ToLowerCase(Trim(variable))
        trimmedValue == Trim(value)
    IN IF cleanedLine = <<>> \/ StartsWith(cleanedLine, <<"#">>) THEN file
       ELSE IF variable = <<>> \/ value = undefined \/ value = <<>> THEN file
       ELSE CASE cleanedVariable = s_member ->
                   [file EXCEPT !.member = Append(@, trimmedValue)]
              [] cleanedVariable = s_belongto ->
                   [file EXCEPT !.belongto = Append(@, trimmedValue)]
              [] cleanedVariable = s_control ->
                   [file EXCEPT !.control = Append(@, trimmedValue)]
              [] cleanedVariable = s_controlledby ->
                   [file EXCEPT !.controlledby = Append(@, trimmedValue)]
              [] cleanedVariable = s_social ->
                   [file EXCEPT !.social = Append(@, trimmedValue)]
              [] cleanedVariable = s_vendor ->
                   [file EXCEPT !.vendor = Append(@, trimmedValue)]
              [] cleanedVariable = s_customer ->
                   [file EXCEPT !.customer = Append(@, trimmedValue)]
              [] cleanedVariable = s_disclosure ->
                   [file EXCEPT !.disclosure = Append(@, trimmedValue)]
              [] cleanedVariable = s_contact ->
                   [file EXCEPT !.contact = Append(@, trimmedValue)]
              [] cleanedVariable = s_datatrainingallowed ->
                   [file EXCEPT !.datatrainingallowed =
                                   (ToLowerCase(trimmedValue) = s_yes)]
              [] OTHER -> file

\* a variant of the line loop that ends at the first line that changes
\* nothing (sensitivity of C20)
RECURSIVE parseLines_stopAtSkipped(_, _)
parseLines_stopAtSkipped(file, lines) ==
    IF lines = <<>> THEN file
    ELSE LET next == parseLine(file, Head(lines))
         IN IF next = file THEN file
            ELSE parseLines_stopAtSkipped(next, Tail(lines))

RECURSIVE parseLines(_, _)
parseLines(file, lines) ==
    IF lines = <<>> THEN file
    ELSE parseLines(parseLine(file, Head(lines)), Tail(lines))

parseTrustTxt(trustTxtContent) ==
    parseLines(EmptyTrustTxtFile, Split(trustTxtContent, "\n"))

(***************************************************************************)
(* The platform registry (package xpoc-framework, imported by xpoc-lib.ts): *)
(* a platform owns the account URLs https://[www.]<host>/<handle>[/] and   *)
(* canonicalizes such a URL to its handle.                                 *)
(***************************************************************************)

Platforms ==
    { [DisplayName |-> <<"X">>, host |-> <<"x", ".", "c", "o", "m">>],
      [DisplayName |-> <<"F", "B">>, host |-> <<"f", "b", ".", "c", "o", "m">>] }

\* the account handle of a path "/<handle>" or "/<handle>/"
HandleOf(url) == DropSuffix(Tail(UrlPathname(url)), <<"/">>)

isValidAccountUrl(platform, url) ==
    /\ UrlParses(url)
    /\ UrlHostname(url) \in {platform.host, WWW \o platform.host}
    /\ HandleOf(url) # <<>>
    /\ ~Includes(HandleOf(url), <<"/">>)

canonicalizeAccountUrl(platform, url) ==
    [platform |-> platform.DisplayName,
     url |-> HTTPS \o platform.host \o <<"/">> \o HandleOf(url),
     account |-> HandleOf(url)]

isSupportedAccountUrl(url) == \E p \in Platforms : isValidAccountUrl(p, url)

getPlatformFromAccountUrl(url) ==
    IF isSupportedAccountUrl(url)
    THEN CHOOSE p \in Platforms : isValidAccountUrl(p, url)
    ELSE undefined

getPlatform(name) == CHOOSE p \in Platforms : p.DisplayName = name

(***************************************************************************)
(* lookupTrustUri: the decisions taken once the manifest has been parsed   *)
(***************************************************************************)

\* new URL(tabUrl).hostname.replace('www.', '')
tabDomainOf(tabUrl) == ReplaceFirst(UrlHostname(tabUrl), WWW, <<>>)

\* new URL(getUrlFromUri(trustUri)).hostname
trustDomainOf(trustUri) == UrlHostname(getUrlFromUri(trustUri))

\* the branch test of lookupTrustUri: tabDomain != trustDomain
isCrossDomain(tabUrl, trustUri) == tabDomainOf(tabUrl) # trustDomainOf(trustUri)

\* a variant of the callback that compares the handles as written
\* (sensitivity of C6)
socialCallback_caseSensitive(tabUrl, account) ==
    LET supported == isSupportedAccountUrl(account)
        platform == getPlatformFromAccountUrl(account)
    IN IF supported /\ isValidAccountUrl(platform, tabUrl)
       THEN IF canonicalizeAccountUrl(platform, tabUrl).account
                 = canonicalizeAccountUrl(platform, account).account
            THEN "true" ELSE "false"
       ELSE IF ~UrlParses(account) THEN "throw"
       ELSE IF tabUrl = getBaseURL(account) THEN "true"
       ELSE "false"

\* the callback given to trustTxtFile.social.find: "true", "false", or
\* "throw" when getBaseURL(account) throws on a string that is no URL
socialCallback(tabUrl, account) ==
    LET supported == isSupportedAccountUrl(account)
        platform == getPlatformFromAccountUrl(account)
    IN IF supported /\ isValidAccountUrl(platform, tabUrl)
       THEN IF ToLowerCase(canonicalizeAccountUrl(platform, tabUrl).account)
                 = ToLowerCase(canonicalizeAccountUrl(platform, account).account)
            THEN "true" ELSE "false"
       ELSE IF ~UrlParses(account) THEN "throw"
       ELSE IF tabUrl = getBaseURL(account) THEN "true"
       ELSE "false"

\* Array.prototype.find over the social list: the first entry the callback
\* accepts, undefined when there is none, "throw" when the callback throws
\* before an entry was accepted
RECURSIVE findSocial(_, _)
findSocial(social, tabUrl) ==
    IF social = <<>> THEN [kind |-> "undefined"]
    ELSE LET r == socialCallback(tabUrl, Head(social))
         IN IF r = "throw" THEN [kind |-> "throw"]
            ELSE IF r = "true" THEN [kind |-> "found", entry |-> Head(social)]
            ELSE findSocial(Tail(social), tabUrl)

\* a variant of the member loop that asks whether the tab domain contains
\* the entry (sensitivity of C9)
memberFound_reversed(member, tabDomain) ==
    \E i \in 1..Len(member) : Includes(tabDomain, member[i])

\* the loop over trustTxtFile.member
memberFound(member, tabDomain) ==
    \E i \in 1..Len(member) : Includes(member[i], tabDomain)

\* the value of a rejected promise (an exception thrown inside lookupTrustUri)
Thrown == [type |-> "TypeError"]

\* a variant of the error return whose baseurl is the manifest URL
\* (sensitivity of C14)
ErrorResult_manifestUrl(trustUri, message) ==
    [type |-> "error", baseurl |-> getUrlFromUri(trustUri), message |-> message]

ErrorResult(trustUri, message) ==
    [type |-> "error", baseurl |-> trustUri, message |-> message]

\* the result built from the matching social entry
socialResult(matchingAccountUrl, trustUri) ==
    LET platform == IF isSupportedAccountUrl(matchingAccountUrl)
                    THEN getPlatformFromAccountUrl(matchingAccountUrl).DisplayName
                    ELSE <<>>
        account == IF platform # <<>>
                   THEN canonicalizeAccountUrl(getPlatform(platform),
                                               matchingAccountUrl).account
                   ELSE matchingAccountUrl
        domain == UrlHostname(getUrlFromUri(trustUri))
    IN [type |-> "account", name |-> domain, baseurl |-> domain,
        version |-> VERSION,
        account |-> [account |-> account, platform |-> platform]]

\* the result built when a member entry contains the tab domain
memberResult(tabUrl, trustUri) ==
    [type |-> "account", name |-> tabDomainOf(tabUrl),
     baseurl |-> getUrlFromUri(trustUri), version |-> VERSION,
     account |-> [account |-> tabDomainOf(tabUrl), platform |-> s_member]]

\* the cross-domain branch of lookupTrustUri
crossDomain(tabUrl, trustUri, trustTxtFile) ==
    LET found == findSocial(trustTxtFile.social, getBaseURL(tabUrl))
    IN IF found.kind = "throw" THEN Thrown
       ELSE IF found.kind = "found" /\ found.entry # <<>>
            THEN socialResult(found.entry, trustUri)
       ELSE IF memberFound(trustTxtFile.member, tabDomainOf(tabUrl))
            THEN memberResult(tabUrl, trustUri)
       ELSE [type |-> "notFound", baseurl |-> trustUri]

(***************************************************************************)
(* The inputs the model draws from                                         *)
(***************************************************************************)

\* number of lookups that can be in flight in the background script
MaxTasks == 2
\* number of lines of a served trust.txt
MaxLines == 2

TaskIds == 1..MaxTasks

ACME == <<"a", "c", ".", "m", "e">>
X_HOST == <<"x", ".", "c", "o", "m">>
E_ORG == <<"e", ".", "o", "r", "g">>
B_IO == <<"b", ".", "i", "o">>

\* trust://ac.me!   trust://ac.me/   trust://ac.me/p!   trust://aac.me!
U_exclaim == TRUST \o ACME \o <<"!">>
U_slash == TRUST \o ACME \o <<"/">>
U_path == TRUST \o ACME \o <<"/", "p", "!">>
U_aacme == TRUST \o <<"a">> \o ACME \o <<"!">>
\* https://ac.me : no trust URI
U_invalid == HTTPS \o ACME

TrustUris == {U_exclaim, U_slash, U_path, U_aacme, U_invalid}

\* https://x.com/Acme   https://www.x.com/acme/?s   https://fb.com/acme
T_x == HTTPS \o X_HOST \o <<"/", "A", "c", "m", "e">>
T_xw == HTTPS \o WWW \o X_HOST \o <<"/", "a", "c", "m", "e", "/", "?", "s">>
T_fb == HTTPS \o <<"f", "b", ".", "c", "o", "m", "/", "a", "c", "m", "e">>
\* https://ac.me/   https://www.ac.me/p   https://awww.ac.me/
T_same == HTTPS \o ACME \o <<"/">>
T_samew == HTTPS \o WWW \o ACME \o <<"/", "p">>
T_aw == HTTPS \o <<"a">> \o WWW \o ACME \o <<"/">>
\* https://e.org/p   https://s.e.org/p   https://b.io/me/
T_mem == HTTPS \o E_ORG \o <<"/", "p">>
T_sub == HTTPS \o <<"s", ".">> \o E_ORG \o <<"/", "p">>
T_blog == HTTPS \o B_IO \o <<"/", "m", "e", "/">>

TabUrls == {T_x, T_xw, T_fb, T_same, T_samew, T_aw, T_mem, T_sub, T_blog}

\* social=https://x.com/ACME   social=https://b.io/me?r   social=acme
L_x == s_social \o <<"=">> \o HTTPS \o X_HOST \o <<"/", "A", "C", "M", "E">>
L_blog == s_social \o <<"=">> \o HTTPS \o B_IO \o <<"/", "m", "e", "?", "r">>
L_bad == s_social \o <<"=", "a", "c", "m", "e">>
\* member=e.org   member=note.org
L_mem == s_member \o <<"=">> \o E_ORG
L_note == s_member \o <<"=", "n", "o", "t">> \o E_ORG
\* member=s.e.org
L_submem == s_member \o <<"=", "s", ".">> \o E_ORG
\* a comment
L_comment == <<"#", " ", "x">>

Lines == {L_x, L_blog, L_bad, L_mem, L_note, L_submem, L_comment}

RECURSIVE JoinLines(_)
JoinLines(ls) ==
    IF ls = <<>> THEN <<>>
    ELSE IF Len(ls) = 1 THEN Head(ls)
    ELSE Head(ls) \o <<"\n">> \o JoinLines(Tail(ls))

\* every trust.txt of at most MaxLines lines
Manifests == {JoinLines(ls) : ls \in UNION {[1..n -> Lines] : n \in 0..MaxLines}}

\* the trust.txt served while the background script is exercised
\* the lines the parser is exercised with: blank, comment, no variable, no
\* '=', no value, unknown variable, and entries written with spaces and capitals
P_blank == <<>>
P_novar == <<"=", "x">>
P_noeq == <<"m", "e", "m", "b", "e", "r">>
P_noval == <<"m", "e", "m", "b", "e", "r", "=">>
P_unknown == <<"f", "o", "o", "=", "x">>
P_spaced == <<" ", "M", "e", "m", "b", "e", "r", " ", "=", " ", "e", ".", "o", "r", "g", " ">>
P_data == <<"d", "a", "t", "a", "t", "r", "a", "i", "n", "i", "n", "g", "a", "l", "l", "o", "w", "e", "d", "=", "Y", "e", "s">>
P_hashmem == <<"#", "m", "e", "m", "b", "e", "r", "=", "e", ".", "o", "r", "g">>
\* social=https://x.com/a?s=1 : a value that itself contains '='
P_query == s_social \o <<"=">> \o HTTPS \o X_HOST \o <<"/", "a", "?", "s", "=", "1">>
ParseLines ==
    {P_blank, L_comment, P_hashmem, P_novar, P_noeq, P_noval, P_unknown,
     P_spaced, P_data, L_blog, L_note, P_query}
ParseManifests ==
    {JoinLines(ls) : ls \in UNION {[1..n -> ParseLines] : n \in 0..MaxLines}}

CacheManifest == JoinLines(<<L_x, L_mem>>)

\* the pages open in tabs and the trust URIs found on them
Pages == {T_x, T_same}
PageUris == {U_exclaim}

\* what a right-click reports: the trust URI under the pointer, or undefined
ClickTexts == {U_slash, undefined}

\* outcomes of the manifest GET (fetchWithTimeout, fetchText)
FetchOutcomes == {"ok", "timeout", "network", "status", "body"}

\* the lists the validator endpoint may answer with
Entry(status) == [status |-> status, domain |-> ACME, message |-> "m"]
ValidatorLists ==
    { <<>>, <<Entry("found")>>, <<Entry("found"), Entry("not found")>> }

\* the arguments storeTrustResult is exercised with
StoreKeys == {U_exclaim, U_slash}
StoreResults ==
    { [type |-> "notFound", baseurl |-> U_exclaim],
      [type |-> "multiple", list |-> <<Entry("found")>>] }

\* the status lists storeTrustResult is exercised with: every list of at
\* most MaxStatuses entries, unknown and empty status strings included
MaxStatuses == 2
Statuses == {"found", "not found", "error", "unknown", ""}
StatusLists ==
    UNION { [1..n -> {Entry(st) : st \in Statuses}] : n \in 0..MaxStatuses }
IconResults == {[type |-> "multiple", list |-> l] : l \in StatusLists}

(***************************************************************************)
(* State                                                                   *)
(***************************************************************************)

VARIABLES
    task,          \* the lookups in flight: one record per lookupTrustUri call
    trustResults,  \* chrome.storage.session: the value under key 'trustResults'
    clickedText,   \* context.ts: export let clickedText
    menuVisible,   \* the 'visible' property of the verifyTrustUri menu item
    served,        \* the trust.txt the manifest host serves
    lastWriter,    \* history: the task whose setLocalStorage ran last, 0 if none
    firstKeys,     \* per page URL: Object.keys(trustResults[url])[0]
    actionIcon,    \* the image chrome.action.setIcon was last called with
    iconCalls,     \* the calls of updateActionIcon that nobody awaits, pending
    autoVerifyTrustUris,  \* chrome.storage.local: the value under that key,
                          \* "undefined", "true" or "false"
    scanner,       \* per tab: the DomScanner of its content script
    activeTab,     \* the tab chrome.tabs.query({active: true}) answers with
    inbox,         \* per tab: the 'autoScanUpdated' messages in flight to it
    contextTarget  \* per tab: context.ts, export let contextTarget (its text)

iconVars == <<actionIcon, iconCalls>>

pageVars == <<autoVerifyTrustUris, scanner, activeTab, inbox, contextTarget>>

vars == <<task, trustResults, clickedText, menuVisible, served, lastWriter,
          firstKeys, iconVars, pageVars>>

NoResult == [type |-> "none"]

\* an object without properties
EmptyMap == <<>>

IdleTask ==
    [origin |-> "none", pc |-> "idle", tabUrl |-> <<>>, trustUri |-> <<>>,
     result |-> NoResult, responded |-> FALSE, stored |-> FALSE,
     key |-> <<>>, snap |-> EmptyMap,
     gets |-> 0, posts |-> 0, outcome |-> "none", branch |-> "none",
     validator |-> "none", answer |-> <<>>, requested |-> <<>>,
     file |-> [parsed |-> FALSE],
     icon |-> "none", popup |-> [title |-> "none"],
     listed |-> "none", followed |-> "none", first |-> <<>>, after |-> 0,
     target |-> <<>>, shownOn |-> <<>>,
     missed |-> {}]

\* obj[k] = v
MapPut(m, k, v) == [x \in (DOMAIN m) \cup {k} |-> IF x = k THEN v ELSE m[x]]

HasKey(m, k) == k \in DOMAIN m

(***************************************************************************)
(* xpoc-lib.ts: lookupTrustUri as a task                                   *)
(***************************************************************************)

\* the texts of the error messages
MSG_PREFIX == <<"E", "r", "r", "o", "r", " ", "f", "e", "t", "c", "h", "i", "n", "g", " ", "t", "r", "u", "s", "t", ".", "t", "x", "t", " ", "f", "i", "l", "e", ":", " ">>
MSG_TIMEOUT == <<"H", "T", "T", "P", " ", "t", "i", "m", "e", "o", "u", "t", " ", "o", "f", " ", "5", "0", "0", "0", "m", "s", " ", "t", "o", " ">>
MSG_HTTP == <<"H", "T", "T", "P", " ", "e", "r", "r", "o", "r", ":", " ">>
MSG_FAILED == <<"T", "y", "p", "e", "E", "r", "r", "o", "r", ":", " ", "F", "a", "i", "l", "e", "d", " ", "t", "o", " ", "f", "e", "t", "c", "h">>
MSG_404 == <<"4", "0", "4">>
MSG_TEXT == <<"t", "e", "x", "t", " ", "p", "a", "r", "s", "e", " ", "e", "r", "r", "o", "r", ":", " ">>
MSG_INVALID == <<"I", "n", "v", "a", "l", "i", "d", " ", "t", "r", "u", "s", "t", " ", "U", "R", "I", ":", " ">>

\* the message lookupTrustUri returns for the Error of fetchWithTimeout /
\* fetchText: `Error fetching trust.txt file: ${trustTxtFile.message}`
fetchError(outcome, url) ==
    MSG_PREFIX \o
    CASE outcome = "timeout" -> MSG_TIMEOUT \o url
      [] outcome = "network" -> MSG_HTTP \o MSG_FAILED
      [] outcome = "status" -> MSG_HTTP \o MSG_404
      [] outcome = "body" -> MSG_TEXT \o MSG_FAILED

\* the message for the Error of downloadTrustTxt on a URI of another scheme
invalidUriError(trustUri) == MSG_PREFIX \o MSG_INVALID \o trustUri

\* the 'results' object of the same-domain branch: it starts with one blank
\* entry, and entry k of the answer overwrites results.list[k]
blankEntry == [status |-> "", domain |-> <<>>, message |-> ""]

multipleResult(data) ==
    [type |-> "multiple", list |-> IF data = <<>> THEN <<blankEntry>> ELSE data]

(***************************************************************************)
(* The reducers of a status list: background.ts (toolbar icon) and         *)
(* content.ts (in-page icon, popup colour, popup title)                    *)
(***************************************************************************)

CHECKMARK_TYPE == "icons/valid128x128.png"
INVALID_TYPE == "icons/invalid128x128.png"
WARNING_TYPE == "icons/warning128x128.png"
UNKNOWN_TYPE == "icons/unknown128x128.png"

\* the icon URLs content.ts imports from './icon'
CHECKMARK_URL == "CHECKMARK_URL"
INVALID_URL == "INVALID_URL"
WARNING_URL == "WARNING_URL"

SUCCESS_COLOR == "#5B9BD5"
ERROR_COLOR == "#E43A19"
WARNING_COLOR == "#F5C343"

\* the flag the loop 'for (const item of list) switch (item.status)' sets
hasStatus(list, status) == \E k \in 1..Len(list) : list[k].status = status

\* the choice all four reducers make from the three flags
reduce(list, invalid, checkmark, warning) ==
    IF ~hasStatus(list, "found") THEN invalid
    ELSE IF ~hasStatus(list, "not found") /\ ~hasStatus(list, "error")
         THEN checkmark
    ELSE warning

\* a variant of getIconType that does not ask for a 'found' entry
\* (sensitivity of C13)
getIconType_lenient(list) ==
    IF ~hasStatus(list, "not found") /\ ~hasStatus(list, "error")
    THEN CHECKMARK_TYPE ELSE WARNING_TYPE

\* a variant of getIconType that takes no account of 'not found' entries
\* (sensitivity of C19)
getIconType_ignoreNotFound(list) ==
    IF ~hasStatus(list, "found") THEN INVALID_TYPE
    ELSE IF ~hasStatus(list, "error") THEN CHECKMARK_TYPE
    ELSE WARNING_TYPE

\* background.ts
getIconType(list) == reduce(list, INVALID_TYPE, CHECKMARK_TYPE, WARNING_TYPE)

\* content.ts
getIconUrl(list) == reduce(list, INVALID_URL, CHECKMARK_URL, WARNING_URL)

\* a variant of getPopUpColor that takes no account of 'error' entries
\* (sensitivity of C31)
getPopUpColor_ignoreError(list) ==
    IF ~hasStatus(list, "found") THEN ERROR_COLOR
    ELSE IF ~hasStatus(list, "not found") THEN SUCCESS_COLOR
    ELSE WARNING_COLOR

getPopUpColor(list) == reduce(list, ERROR_COLOR, SUCCESS_COLOR, WARNING_COLOR)

getPopUpMessage(list) ==
    reduce(list, "Trust URI Error", "Trust URI Match", "Trust URI Warning")

\* content.ts: getBaseURL(trustUri), the base URL shown in the popup
getBaseURL_content(trustUri) ==
    DropSuffix(DropSuffix(ReplacePrefix(trustUri, TRUST, HTTPS), <<"!">>), <<"/">>)

\* content.ts: the 'tables' of a multiple result: one blank row to start
\* with, row k overwritten by entry k of the list
tablesOf(list) ==
    IF list = <<>> THEN << [title |-> "", Message |-> ""] >>
    ELSE [k \in 1..Len(list) |->
             [title |-> list[k].status, Message |-> list[k].message]]

NoPopup == [title |-> "none"]

\* content.ts: showTrustPopup, as the arguments of contentPopup.show
showTrustPopup(trustResult) ==
    CASE trustResult.type = "notFound" ->
           [title |-> "Trust URI Error", color |-> ERROR_COLOR,
            icon |-> "icons/invalid.svg",
            tables |-> << [title |-> "Error",
                           Message |-> "This page is not listed in the trust.txt file at ",
                           url |-> getBaseURL_content(trustResult.baseurl)] >>]
      [] trustResult.type = "error" ->
           [title |-> "Trust URI Error", color |-> ERROR_COLOR,
            icon |-> "icons/invalid.svg",
            tables |-> << [title |-> "Error",
                           Message |-> "Failed to fetch trust.txt file from ",
                           url |-> getBaseURL_content(trustResult.baseurl)] >>]
      [] trustResult.type = "account" ->
           [title |-> "Trust.txt match", color |-> SUCCESS_COLOR,
            icon |-> "icons/xpoc_logo.svg",
            tables |-> << [account |-> trustResult.account,
                           Message |-> " found in trust.txt file at ",
                           url |-> trustResult.baseurl] >>]
      [] trustResult.type = "multiple" ->
           [title |-> getPopUpMessage(trustResult.list),
            color |-> getPopUpColor(trustResult.list),
            icon |-> getIconUrl(trustResult.list),
            tables |-> tablesOf(trustResult.list)]
      [] OTHER -> NoPopup

\* background.ts: the icon storeTrustResult passes to updateActionIcon
storeIcon(result) ==
    IF result.type \in {"error", "notFound"} THEN INVALID_TYPE
    ELSE IF result.type = "multiple" THEN getIconType(result.list)
    ELSE CHECKMARK_TYPE

(***************************************************************************)
(* background.ts: what runs when the promise of lookupTrustUri settles     *)
(***************************************************************************)

\* the key storeTrustResult is called with by the onMessage listener
scanKey(t) == clickedText

\* a variant of the continuations in which the handler of the menu click
\* stores every result (sensitivity of C23)
settled_menuStoresAll(t, r) ==
    IF r = Thrown THEN [t EXCEPT !.pc = "rejected", !.result = r]
    ELSE IF t.origin = "offscreen"
    THEN [t EXCEPT !.pc = "done", !.result = r, !.responded = TRUE]
    ELSE [t EXCEPT !.pc = "icon", !.result = r,
                   !.responded = (t.origin = "scan"),
                   !.key = IF t.origin = "scan" THEN scanKey(t) ELSE t.trustUri,
                   !.popup = IF t.origin = "scan" THEN showTrustPopup(r) ELSE @]

\* the task after lookupTrustUri settled with r
settled(t, r) ==
    IF r = Thrown
    THEN \* the promise rejects: no continuation runs
         [t EXCEPT !.pc = "rejected", !.result = r]
    ELSE CASE t.origin = "offscreen" ->
                [t EXCEPT !.pc = "done", !.result = r, !.responded = TRUE]
           [] t.origin = "scan" ->
                \* storeTrustResult(tabUrl, clickedText, result); sendResponse(result)
                \* content.ts: the response reaches addIcon (Icon, popup)
                [t EXCEPT !.pc = "icon", !.result = r, !.responded = TRUE,
                          !.key = scanKey(t), !.popup = showTrustPopup(r)]
           [] t.origin = "menu" ->
                IF r.type \in {"account", "multiple"}
                THEN [t EXCEPT !.pc = "icon", !.result = r, !.key = t.trustUri]
                \* 'contextMenuResult' reaches content.ts: showTrustPopup
                ELSE [t EXCEPT !.pc = "done", !.result = r, !.responded = TRUE,
                               !.popup = showTrustPopup(r)]

\* a variant of the call that fetches whatever the scheme of the URI
\* (sensitivity of C15)
started_anyScheme(origin, tabUrl, trustUri) ==
    [IdleTask EXCEPT !.origin = origin, !.tabUrl = tabUrl,
                     !.trustUri = trustUri, !.pc = "fetching", !.gets = 1,
                     !.requested = getUrlFromUri(trustUri)]

\* the call lookupTrustUri(tabUrl, trustUri) up to its first suspension
started(origin, tabUrl, trustUri) ==
    LET t == [IdleTask EXCEPT !.origin = origin, !.tabUrl = tabUrl,
                              !.trustUri = trustUri]
    IN IF trustUri = undefined
       \* downloadTrustTxt: trustUri.startsWith throws a TypeError
       THEN settled(t, Thrown)
       ELSE IF ~StartsWith(trustUri, TRUST)
       THEN settled(t, ErrorResult(trustUri, invalidUriError(trustUri)))
       ELSE [t EXCEPT !.pc = "fetching", !.gets = 1,
                      !.requested = getUrlFromUri(trustUri)]

\* offscreen.ts: the onMessage listener, request.type = 'lookupTrustUri'
OffscreenLookup(i, tabUrl, url) ==
    /\ task[i].pc = "idle"
    /\ task' = [task EXCEPT ![i] = started("offscreen", tabUrl, url)]
    /\ UNCHANGED <<trustResults, clickedText, menuVisible, served, lastWriter,
                   firstKeys, iconVars, pageVars>>

\* background.ts: the onMessage listener, message.action = 'lookupTrustUri'
ScanLookup(i, tabUrl, trustUri) ==
    /\ task[i].pc = "idle"
    /\ \A j \in 1..(i - 1) : task[j].pc # "idle"
    /\ task' = [task EXCEPT ![i] = started("scan", tabUrl, trustUri)]
    /\ UNCHANGED <<trustResults, clickedText, menuVisible, served, lastWriter,
                   firstKeys, iconVars, pageVars>>

\* context.ts: the onMessage listener, message.action = 'showContextMenu'
ShowContextMenu(data) ==
    /\ clickedText' = data
    /\ menuVisible' = (data # undefined)
    /\ UNCHANGED <<task, trustResults, served, lastWriter, firstKeys, iconVars, pageVars>>

\* context.ts: contextMenus.onClicked, then the handler of background.ts
MenuClick(i, tabUrl) ==
    /\ menuVisible
    /\ task[i].pc = "idle"
    /\ \A j \in 1..(i - 1) : task[j].pc # "idle"
    \* history: the node the content script of the tab remembers at the click
    /\ task' = [task EXCEPT ![i] = [started("menu", tabUrl, clickedText)
                                       EXCEPT !.target = contextTarget[tabUrl]]]
    /\ UNCHANGED <<trustResults, clickedText, menuVisible, served, lastWriter,
                   firstKeys, iconVars, pageVars>>

\* the body of lookupTrustUri after await downloadTrustTxt, for the task t
fetched_of(t, outcome) ==
    LET trustTxtFile == parseTrustTxt(served)
    IN IF outcome # "ok"
       THEN settled([t EXCEPT !.outcome = outcome],
                    ErrorResult(t.trustUri,
                                fetchError(outcome, getUrlFromUri(t.trustUri))))
       ELSE IF isCrossDomain(t.tabUrl, t.trustUri)
       THEN settled([t EXCEPT !.outcome = outcome, !.branch = "cross",
                              !.file = trustTxtFile],
                    crossDomain(t.tabUrl, t.trustUri, trustTxtFile))
       ELSE [t EXCEPT !.pc = "validating", !.posts = 1,
                      !.outcome = outcome, !.branch = "same",
                      !.file = trustTxtFile]

\* a variant of the lookup that resolves the text last right-clicked in
\* place of its argument (sensitivity of C22)
fetched_clicked(t, outcome) ==
    [fetched_of([t EXCEPT !.trustUri = clickedText], outcome)
        EXCEPT !.trustUri = t.trustUri]

\* the task once downloadTrustTxt has ended with the outcome: lookupTrustUri
\* runs to its return or to the validator POST
fetched(t, outcome) == fetched_of(t, outcome)

\* the manifest GET of downloadTrustTxt ends, and lookupTrustUri runs to its
\* return or to the validator POST
FetchDone(i, outcome) ==
    /\ task[i].pc = "fetching"
    /\ task' = [task EXCEPT ![i] = fetched(task[i], outcome)]
    /\ UNCHANGED <<trustResults, clickedText, menuVisible, served, lastWriter,
                   firstKeys, iconVars, pageVars>>

(***************************************************************************)
(* fetchWithTimeout / fetchText step by step: the timer set before fetch() *)
(* is armed while the task is "fetching"; .finally(clearTimeout) runs when *)
(* the promise of fetch() settles, that is when the response headers are   *)
(* in; response.text() then reads the body ("reading").                    *)
(***************************************************************************)

\* setTimeout(() => controller.abort(), timeout) fires: AbortError
TimerFires(i) == FetchDone(i, "timeout")

\* fetch() rejects for another reason, or the response is not ok
FetchFails(i, outcome) ==
    /\ outcome \in {"network", "status"}
    /\ FetchDone(i, outcome)

\* fetch() resolves with an ok response: the timer is cleared and
\* fetchText awaits response.text()
ResponseArrives(i) ==
    /\ task[i].pc = "fetching"
    /\ task' = [task EXCEPT ![i].pc = "reading"]
    /\ UNCHANGED <<trustResults, clickedText, menuVisible, served, lastWriter,
                   firstKeys, iconVars, pageVars>>

\* response.text() settles: with the text, or with a read error
BodyRead(i, outcome) ==
    /\ outcome \in {"ok", "body"}
    /\ task[i].pc = "reading"
    /\ task' = [task EXCEPT ![i] = fetched([task[i] EXCEPT !.pc = "fetching"],
                                           outcome)]
    /\ UNCHANGED <<trustResults, clickedText, menuVisible, served, lastWriter,
                   firstKeys, iconVars, pageVars>>

\* the validator POST ends: ok with a list, or a failure caught by .catch
ValidatorDone(i, ok, data) ==
    LET t == task[i]
    IN /\ t.pc = "validating"
       /\ task' = [task EXCEPT ![i] =
            IF ok
            THEN settled([t EXCEPT !.validator = "ok", !.answer = data],
                         multipleResult(data))
            ELSE settled([t EXCEPT !.validator = "failed"],
                         multipleResult(<<>>))]
       /\ UNCHANGED <<trustResults, clickedText, menuVisible, served, lastWriter,
                   firstKeys, iconVars, pageVars>>

(***************************************************************************)
(* background.ts: storeTrustResult                                         *)
(***************************************************************************)

\* a call storeTrustResult(url, trustUri, result), up to its first await
StoreCall(i, url, trustUri, result) ==
    /\ task[i].pc = "idle"
    /\ \A j \in 1..(i - 1) : task[j].pc # "idle"
    /\ task' = [task EXCEPT ![i] =
                   [IdleTask EXCEPT !.origin = "store", !.pc = "icon",
                                    !.tabUrl = url, !.trustUri = trustUri,
                                    !.key = trustUri, !.result = result]]
    /\ UNCHANGED <<trustResults, clickedText, menuVisible, served, lastWriter,
                   firstKeys, iconVars, pageVars>>

\* await updateActionIcon(...)
IconUpdated(i) ==
    /\ task[i].pc = "icon"
    /\ task' = [task EXCEPT ![i].pc = "get",
                            ![i].icon = storeIcon(task[i].result)]
    /\ actionIcon' = [path |-> storeIcon(task[i].result), by |-> i]
    /\ UNCHANGED <<trustResults, clickedText, menuVisible, served, lastWriter,
                   firstKeys, iconCalls, pageVars>>

\* await getLocalStorage('trustResults'): the whole map as it is now
StorageGet(i) ==
    /\ task[i].pc = "get"
    /\ task' = [task EXCEPT ![i].pc = "set", ![i].snap = trustResults,
                            ![i].first = firstKeys]
    /\ UNCHANGED <<trustResults, clickedText, menuVisible, served, lastWriter,
                   firstKeys, iconVars, pageVars>>

\* a variant of the write-back whose map holds the new entry only
\* (sensitivity of C2)
written_fresh(snap, url, trustUri, result) ==
    MapPut(EmptyMap, url, MapPut(EmptyMap, trustUri, result))

\* a variant of the write-back that starts the entries of the page afresh
\* (sensitivity of C26)
written_freshPage(snap, url, trustUri, result) ==
    MapPut(snap, url, MapPut(EmptyMap, trustUri, result))

\* a variant of the write-back that creates the map of the page and sets
\* no key in it (sensitivity of C36)
written_noEntry(snap, url, trustUri, result) ==
    MapPut(snap, url, IF HasKey(snap, url) THEN snap[url] ELSE EmptyMap)

\* trustResults[url] = trustResults[url] || {}; trustResults[url][trustUri] = result
written(snap, url, trustUri, result) ==
    LET page == IF HasKey(snap, url) THEN snap[url] ELSE EmptyMap
    IN MapPut(snap, url, MapPut(page, trustUri, result))

\* the first keys of the per-page maps of the map written back: a key set
\* on an object goes last, unless the object is new
firstWritten(first, snap, url, trustUri) ==
    IF HasKey(snap, url) THEN first ELSE MapPut(first, url, trustUri)

\* await setLocalStorage(trustResultsSet): the map read, with the key set
StorageSet(i) ==
    LET t == task[i]
    IN /\ t.pc = "set"
       /\ trustResults' = written(t.snap, t.tabUrl, t.key, t.result)
       /\ firstKeys' = firstWritten(t.first, t.snap, t.tabUrl, t.key)
       /\ task' = [j \in TaskIds |->
                     IF j = i
                     THEN [t EXCEPT !.pc = "done", !.responded = TRUE,
                                    !.stored = TRUE, !.snap = EmptyMap,
                                    !.first = EmptyMap,
                                    \* the handler of the menu click returns:
                                    \* 'contextMenuResult', showTrustPopup
                                    !.popup = IF t.origin = "menu"
                                              THEN showTrustPopup(t.result)
                                              ELSE @]
                     ELSE IF task[j].pc = "set"
                     \* history: task j holds a map read before this write
                     THEN [task[j] EXCEPT !.missed = @ \cup {i}]
                     ELSE task[j]]
       /\ lastWriter' = i
       /\ UNCHANGED <<clickedText, menuVisible, served, iconVars, pageVars>>

(***************************************************************************)
(* background.ts: chrome.tabs.onActivated; popup.ts: showResults           *)
(***************************************************************************)

\* a call updateActionIcon(path) that is not awaited: it runs beside its
\* caller and ends with chrome.action.setIcon
iconCall(i, n, path) == [by |-> i, n |-> n, path |-> path]

\* a tab is activated: the listener calls updateActionIcon(UNKNOWN_TYPE),
\* then asks for the tab (chrome.tabs.get) and for the cache
TabActivated(i, tab) ==
    /\ task[i].pc = "idle"
    /\ \A j \in 1..(i - 1) : task[j].pc # "idle"
    /\ task' = [task EXCEPT ![i] =
                   [IdleTask EXCEPT !.origin = "activated", !.pc = "tabget",
                                    !.tabUrl = tab]]
    /\ activeTab' = tab
    /\ iconCalls' = iconCalls \cup {iconCall(i, 1, UNKNOWN_TYPE)}
    /\ UNCHANGED <<trustResults, clickedText, menuVisible, served, lastWriter,
                   firstKeys, actionIcon, autoVerifyTrustUris, scanner, inbox,
                   contextTarget>>

\* the icon the listener chooses for the stored result it looks at
activatedIcon(result) ==
    CASE result.type = "account" -> CHECKMARK_TYPE
      [] result.type = "multiple" -> getIconType(result.list)
      [] result.type \in {"notFound", "error"} -> INVALID_TYPE
      [] OTHER -> "none"

\* the callback of getLocalStorage('trustResults') in the listener: when
\* the cache has an entry for the tab URL, the result under its first key
\* decides the icon
ActivatedRead(i) ==
    LET t == task[i]
    IN /\ t.pc = "tabget"
       /\ IF HasKey(trustResults, t.tabUrl)
          THEN LET k == firstKeys[t.tabUrl]
                   result == trustResults[t.tabUrl][k]
               IN /\ task' = [task EXCEPT ![i] =
                                 [t EXCEPT !.pc = "done", !.snap = trustResults,
                                           !.key = k, !.result = result,
                                           !.after = lastWriter,
                                           !.icon = activatedIcon(result)]]
                  /\ iconCalls' =
                        IF activatedIcon(result) = "none" THEN iconCalls
                        ELSE iconCalls \cup
                               {iconCall(i, 2, activatedIcon(result))}
          ELSE /\ task' = [task EXCEPT ![i] =
                              [t EXCEPT !.pc = "done", !.snap = trustResults]]
               /\ UNCHANGED iconCalls
       /\ UNCHANGED <<trustResults, clickedText, menuVisible, served, lastWriter,
                      firstKeys, actionIcon, pageVars>>

\* a pending updateActionIcon reaches chrome.action.setIcon({ imageData })
IconSet(c) ==
    /\ c \in iconCalls
    /\ actionIcon' = [path |-> c.path, by |-> c.by]
    /\ iconCalls' = iconCalls \ {c}
    /\ UNCHANGED <<task, trustResults, clickedText, menuVisible, served,
                   lastWriter, firstKeys, pageVars>>

\* popup.ts: what showResults leaves on display for the results it got from
\* getTrustResultsForCurrentTab: the 'no-origin' text when there is none,
\* the account of the first result when it is an account, nothing otherwise
shownInPopup(obj, first) ==
    IF DOMAIN obj = {} THEN "no-origin"
    ELSE IF obj[first].type = "account" THEN "account" ELSE "empty"

\* popup.ts: the popup opens on the active tab (DOMContentLoaded, showResults)
PopupOpened(i) ==
    /\ task[i].pc = "idle"
    /\ \A j \in 1..(i - 1) : task[j].pc # "idle"
    /\ LET obj == IF HasKey(trustResults, activeTab)
                  THEN trustResults[activeTab] ELSE EmptyMap
           first == IF DOMAIN obj = {} THEN <<>> ELSE firstKeys[activeTab]
       IN task' = [task EXCEPT ![i] =
                        [IdleTask EXCEPT !.origin = "popup", !.pc = "done",
                                         !.tabUrl = activeTab,
                                         !.snap = trustResults,
                                         !.listed = shownInPopup(obj, first)]]
    /\ UNCHANGED <<trustResults, clickedText, menuVisible, served, lastWriter,
                   firstKeys, iconVars, pageVars>>

(***************************************************************************)
(* The option 'Verify Trust URI automatically': background.ts              *)
(* (onInstalled), content.ts (autoScanPage, 'autoScanUpdated'), popup.ts   *)
(* (the change listener of the checkbox)                                   *)
(***************************************************************************)

\* number of 'autoScanUpdated' messages that can be in flight to one tab
MaxInbox == 2

\* !!result?.autoVerifyTrustUris
flagSet == autoVerifyTrustUris = "true"

\* background.ts: chrome.runtime.onInstalled with details.reason 'install'
Installed ==
    /\ autoVerifyTrustUris = "undefined"
    /\ autoVerifyTrustUris' = "true"
    /\ UNCHANGED <<task, trustResults, clickedText, menuVisible, served,
                   lastWriter, firstKeys, iconVars, scanner, activeTab, inbox,
                   contextTarget>>

\* content.ts: autoScanPage, run when the content script of a page loads
PageLoaded(tab) ==
    /\ scanner[tab] = "unloaded"
    /\ scanner' = [scanner EXCEPT ![tab] =
                      IF flagSet THEN "running" ELSE "stopped"]
    /\ UNCHANGED <<task, trustResults, clickedText, menuVisible, served,
                   lastWriter, firstKeys, iconVars, autoVerifyTrustUris, activeTab, inbox,
                   contextTarget>>

\* popup.ts: the checkbox, which shows the stored flag, is flipped: the flag
\* is stored and 'autoScanUpdated' is sent to the active tab (it is lost when
\* that tab has no content script to receive it)
OptionToggled ==
    LET checked == ~flagSet
    IN /\ autoVerifyTrustUris # "undefined"
       /\ Len(inbox[activeTab]) < MaxInbox
       /\ autoVerifyTrustUris' = IF checked THEN "true" ELSE "false"
       /\ inbox' = IF scanner[activeTab] = "unloaded" THEN inbox
                   ELSE [inbox EXCEPT ![activeTab] = Append(@, checked)]
       /\ UNCHANGED <<task, trustResults, clickedText, menuVisible, served,
                      lastWriter, firstKeys, iconVars, scanner, activeTab, contextTarget>>

\* content.ts: the onMessage listener, request.action = 'autoScanUpdated'
AutoScanUpdated(tab) ==
    /\ inbox[tab] # <<>>
    /\ scanner' = [scanner EXCEPT ![tab] =
                      IF Head(inbox[tab]) THEN "running" ELSE "stopped"]
    /\ inbox' = [inbox EXCEPT ![tab] = Tail(@)]
    /\ UNCHANGED <<task, trustResults, clickedText, menuVisible, served,
                   lastWriter, firstKeys, iconVars, autoVerifyTrustUris, activeTab,
                   contextTarget>>

(***************************************************************************)
(* context.ts, content.ts: the content script of a page. A node is modelled *)
(* by its kind and its text, an element by the sequence of its child nodes. *)
(***************************************************************************)

\* the characters of the domain of a trust URI: [a-zA-Z0-9.-]
DomainChars ==
    {"a", "b", "c", "d", "e", "f", "g", "h", "i", "j", "k", "l", "m", "n", "o",
     "p", "q", "r", "s", "t", "u", "v", "w", "x", "y", "z",
     "A", "B", "C", "D", "E", "F", "G", "H", "I", "J", "K", "L", "M", "N", "O",
     "P", "Q", "R", "S", "T", "U", "V", "W", "X", "Y", "Z",
     "0", "1", "2", "3", "4", "5", "6", "7", "8", "9", ".", "-"}

\* the characters a path of a trust URI cannot hold: '!', white space, '<'
NonPathChars == {"!", " ", "\t", "\r", "\n", "<"}

\* the last position of the run of characters of cs that starts at from
\* (from - 1 when the run is empty)
RunEndIn(text, from, cs) ==
    LET stops == {j \in from..Len(text) : text[j] \notin cs}
    IN IF stops = {} THEN Len(text)
       ELSE (CHOOSE j \in stops : \A k \in stops : j <= k) - 1

\* the last position of the run of characters outside cs that starts at from
RunEndNotIn(text, from, cs) ==
    LET stops == {j \in from..Len(text) : text[j] \in cs}
    IN IF stops = {} THEN Len(text)
       ELSE (CHOOSE j \in stops : \A k \in stops : j <= k) - 1

\* /trust:\/\/([a-zA-Z0-9.-]+)(\/[^!\s<]*)?!?/ tried at position i of the
\* text: the last position of the match, 0 when the pattern does not match
matchEnd(text, i) ==
    LET n == Len(text)
        d == RunEndIn(text, i + Len(TRUST), DomainChars)
        p == IF d < n /\ text[d + 1] = "/"
             THEN RunEndNotIn(text, d + 2, NonPathChars) ELSE d
    IN IF i + Len(TRUST) - 1 > n THEN 0
       ELSE IF SubSeq(text, i, i + Len(TRUST) - 1) # TRUST \/ d < i + Len(TRUST)
       THEN 0
       ELSE IF p < n /\ text[p + 1] = "!" THEN p + 1 ELSE p

\* match.index of the leftmost match of the pattern, 0 when there is none
matchIndex(text) ==
    LET hits == {i \in 1..Len(text) : matchEnd(text, i) > 0}
    IN IF hits = {} THEN 0 ELSE CHOOSE i \in hits : \A k \in hits : i <= k

\* TRUSTTXT_PATTERN.exec(text)?.[0], textContent.match(PATTERN)[0]
patternExec(text) ==
    LET i == matchIndex(text)
    IN IF i = 0 THEN undefined ELSE SubSeq(text, i, matchEnd(text, i))

\* content.ts, nodeTest (for a node that is not a script)
nodeTest(text) == matchIndex(text) > 0

TextNode(text) == [kind |-> "text", text |-> text]
ElementNode(text) == [kind |-> "element", text |-> text]

RECURSIVE textContent(_)
\* Node.textContent of an element with these child nodes
textContent(children) ==
    IF children = <<>> THEN <<>>
    ELSE Head(children).text \o textContent(Tail(children))

\* Array.from(target.childNodes).find(node => node.nodeType === TEXT_NODE):
\* the text of the first text node, undefined when there is none
firstTextNode(children) ==
    LET hits == {k \in 1..Len(children) : children[k].kind = "text"}
    IN IF hits = {} THEN undefined
       ELSE children[CHOOSE k \in hits : \A m \in hits : k <= m].text

\* context.ts, getSubstringAtClick with range.startOffset = clickIndex
\* (0-based); rangeCount = 0 is the input clickIndex = -1
getSubstringAtClick(text, clickIndex) ==
    LET startIndex == matchIndex(text) - 1
        endIndex == matchEnd(text, matchIndex(text))
    IN IF clickIndex < 0 \/ matchIndex(text) = 0 THEN undefined
       ELSE IF clickIndex = 0 \/ (clickIndex >= startIndex /\ clickIndex <= endIndex)
       THEN patternExec(text)
       ELSE undefined

\* content.ts, addIcon: the trustUri of the request it sends for a node
addIconUri(text) == patternExec(text)

N_uri == U_exclaim
N_see == <<"s", "e", "e", " ">>
N_in == N_see \o U_exclaim \o <<" ", "x">>

\* the texts of the text nodes of a page
NodeTexts == {N_uri, N_in, N_see}

\* <span>trust://ac.me!</span>
G_span == <<TextNode(N_uri)>>
\* <p>see <b>x</b>trust://ac.me!</p>
G_mixed == <<TextNode(N_see), ElementNode(<<"x">>), TextNode(U_exclaim)>>
\* <p><a>trust://ac.me!</a></p>, clicked on the paragraph
G_nested == <<ElementNode(U_exclaim)>>
\* <p>see </p>
G_plain == <<TextNode(N_see)>>

\* the elements a right-click can land on
Targets == {G_span, G_mixed, G_nested, G_plain}

\* context.ts: the mouseup listener for a right-click on the element target
\* of the page tab, and the 'showContextMenu' listener of the background
RightClicked(tab, target, clickIndex) ==
    LET text == textContent(target)
        clicked == getSubstringAtClick(text, clickIndex)
    IN /\ text # <<>>
       /\ contextTarget' = IF clicked # undefined
                           THEN [contextTarget EXCEPT ![tab] = firstTextNode(target)]
                           ELSE contextTarget
       /\ clickedText' = clicked
       /\ menuVisible' = (clicked # undefined)
       /\ UNCHANGED <<task, trustResults, served, lastWriter, firstKeys, iconVars,
                      autoVerifyTrustUris, scanner, activeTab, inbox>>

\* the scanner's add callback for a text node of the page: addIcon(node),
\* then the onMessage listener of the background for its request
NodeAdded(i, tab, text) ==
    /\ nodeTest(text)
    /\ ScanLookup(i, tab, addIconUri(text))

\* content.ts: the 'contextMenuResult' callback for the menu click of task i:
\* addIcon(contextTarget) throws when nothing is remembered, and otherwise
\* sends a request that the background handles as task j
ContextMenuResult(i, j) ==
    LET t == task[i]
        node == contextTarget[t.tabUrl]
    IN /\ t.origin = "menu"
       /\ t.pc = "done"
       /\ t.followed = "none"
       /\ IF node = undefined
          THEN /\ j = i
               /\ task' = [task EXCEPT ![i].followed = "threw",
                                       ![i].shownOn = node,
                                       ![i].popup = IdleTask.popup]
          ELSE IF node = <<>>
          THEN /\ j = i
               /\ task' = [task EXCEPT ![i].followed = "skipped",
                                       ![i].shownOn = node]
          ELSE /\ j # i
               /\ task[j].pc = "idle"
               /\ task' = [task EXCEPT
                             ![i].followed = "sent",
                             ![i].shownOn = node,
                             ![j] = started("scan", t.tabUrl, addIconUri(node))]
       /\ UNCHANGED <<trustResults, clickedText, menuVisible, served, lastWriter,
                      firstKeys, iconVars, pageVars>>

(***************************************************************************)
(* Specifications                                                          *)
(***************************************************************************)

\* the toolbar shows the default icon of the extension; the extension is
\* not installed yet, no tab has loaded its content script
InitPages ==
    /\ actionIcon = [path |-> "default", by |-> 0]
    /\ iconCalls = {}
    /\ autoVerifyTrustUris = "undefined"
    /\ scanner = [p \in Pages |-> "unloaded"]
    /\ activeTab = T_x
    /\ inbox = [p \in Pages |-> <<>>]
    /\ contextTarget = [p \in Pages |-> undefined]

\* the background script: page scans and context-menu clicks share the cache
Init ==
    /\ task = [i \in TaskIds |-> IdleTask]
    /\ trustResults = EmptyMap
    /\ clickedText = <<>>
    /\ menuVisible = TRUE
    /\ served = CacheManifest
    /\ lastWriter = 0
    /\ firstKeys = EmptyMap
    /\ InitPages

Next ==
    \/ \E i \in TaskIds, p \in Pages, u \in PageUris : ScanLookup(i, p, u)
    \/ \E d \in ClickTexts : ShowContextMenu(d)
    \/ \E i \in TaskIds, p \in Pages : MenuClick(i, p)
    \/ \E i \in TaskIds, o \in {"ok", "timeout"} : FetchDone(i, o)
    \/ \E i \in TaskIds, ok \in BOOLEAN, d \in {<<Entry("found")>>} :
           ValidatorDone(i, ok, d)
    \/ \E i \in TaskIds : IconUpdated(i)
    \/ \E i \in TaskIds : StorageGet(i)
    \/ \E i \in TaskIds : StorageSet(i)

Spec == Init /\ [][Next]_vars

\* the background script when every await of storeTrustResult
\* (updateActionIcon, getLocalStorage, setLocalStorage) comes back
SpecCache ==
    /\ Init /\ [][Next]_vars
    /\ \A i \in TaskIds :
           WF_vars(IconUpdated(i)) /\ WF_vars(StorageGet(i)) /\ WF_vars(StorageSet(i))

\* the cache alone: concurrent calls of storeTrustResult
NextStore ==
    \/ \E i \in TaskIds, p \in Pages, u \in StoreKeys, r \in StoreResults :
           StoreCall(i, p, u, r)
    \/ \E i \in TaskIds : IconUpdated(i)
    \/ \E i \in TaskIds : StorageGet(i)
    \/ \E i \in TaskIds : StorageSet(i)

SpecStore == Init /\ [][NextStore]_vars

\* the readers of the cache beside storeTrustResult
TabResults ==
    { [type |-> "notFound", baseurl |-> U_exclaim],
      [type |-> "error", baseurl |-> U_exclaim, message |-> MSG_PREFIX],
      [type |-> "account", name |-> ACME, baseurl |-> ACME, version |-> VERSION,
       account |-> [account |-> ACME, platform |-> <<"X">>]] }

NextTabs ==
    \/ \E p \in Pages, r \in TabResults : StoreCall(1, p, U_exclaim, r)
    \/ IconUpdated(1)
    \/ StorageGet(1)
    \/ StorageSet(1)
    \/ \E i \in TaskIds, p \in Pages : TabActivated(i, p)
    \/ \E i \in TaskIds : ActivatedRead(i)
    \/ \E c \in iconCalls : IconSet(c)
    \/ \E i \in TaskIds : PopupOpened(i)

SpecTabs == Init /\ [][NextTabs]_vars

\* the option and the scanners of the tabs
NextScan ==
    \/ Installed
    \/ \E p \in Pages : PageLoaded(p)
    \/ OptionToggled
    \/ \E p \in Pages : AutoScanUpdated(p)
    \/ \E i \in TaskIds, p \in Pages : TabActivated(i, p)
    \/ \E i \in TaskIds : ActivatedRead(i)
    \/ \E c \in iconCalls : IconSet(c)

SpecScan == Init /\ [][NextScan]_vars

\* one call of lookupTrustUri on every page URL, trust URI and manifest
InitResolve ==
    /\ task = [i \in TaskIds |-> IdleTask]
    /\ trustResults = EmptyMap
    /\ clickedText = <<>>
    /\ menuVisible = TRUE
    /\ served \in Manifests
    /\ lastWriter = 0
    /\ firstKeys = EmptyMap
    /\ InitPages

NextResolve ==
    \/ \E tabUrl \in TabUrls, url \in TrustUris : OffscreenLookup(1, tabUrl, url)
    \/ \E o \in FetchOutcomes : FetchDone(1, o)
    \/ \E ok \in BOOLEAN, d \in ValidatorLists : ValidatorDone(1, ok, d)

SpecResolve == InitResolve /\ [][NextResolve]_vars

\* one call of lookupTrustUri on every manifest text of the parser's lines
InitParse ==
    /\ task = [i \in TaskIds |-> IdleTask]
    /\ trustResults = EmptyMap
    /\ clickedText = <<>>
    /\ menuVisible = TRUE
    /\ served \in ParseManifests
    /\ lastWriter = 0
    /\ firstKeys = EmptyMap
    /\ InitPages

NextParse ==
    \/ \E tabUrl \in {T_mem, T_same} : OffscreenLookup(1, tabUrl, U_exclaim)
    \/ \E o \in FetchOutcomes : FetchDone(1, o)
    \/ \E ok \in BOOLEAN, d \in ValidatorLists : ValidatorDone(1, ok, d)

SpecParse == InitParse /\ [][NextParse]_vars

\* one call of storeTrustResult on every status list
NextIcon ==
    \/ \E p \in Pages, u \in StoreKeys, r \in IconResults : StoreCall(1, p, u, r)
    \/ IconUpdated(1)
    \/ StorageGet(1)
    \/ StorageSet(1)

SpecIcon == Init /\ [][NextIcon]_vars

\* the manifest retrieval step by step; the timer fires when it is due, the
\* server owes nothing
NextFetch ==
    \/ \E i \in TaskIds, tabUrl \in Pages, url \in TrustUris :
           OffscreenLookup(i, tabUrl, url)
    \/ \E i \in TaskIds : TimerFires(i)
    \/ \E i \in TaskIds, o \in {"network", "status"} : FetchFails(i, o)
    \/ \E i \in TaskIds : ResponseArrives(i)
    \/ \E i \in TaskIds, o \in {"ok", "body"} : BodyRead(i, o)
    \/ \E i \in TaskIds, ok \in BOOLEAN, d \in ValidatorLists :
           ValidatorDone(i, ok, d)

SpecFetch ==
    Init /\ [][NextFetch]_vars /\ \A i \in TaskIds : WF_vars(TimerFires(i))

\* the same steps when the manifest host does not stall: a body that does
\* not come ends the read with an error; the validator owes nothing
SpecValidator ==
    /\ Init /\ [][NextFetch]_vars
    /\ \A i \in TaskIds :
           WF_vars(TimerFires(i)) /\ WF_vars(BodyRead(i, "body"))

\* range.startOffset: no selection, 0, in the URI, past the text
ClickIndexes == {-1, 0, Len(N_see) + 1, Len(N_in)}

\* one page and its content script: right-clicks, the scanner's callbacks,
\* menu clicks and their results coming back to the page
NextContent ==
    \/ \E g \in Targets, c \in ClickIndexes : RightClicked(T_x, g, c)
    \/ \E i \in TaskIds, text \in NodeTexts : NodeAdded(i, T_x, text)
    \/ \E i \in TaskIds : MenuClick(i, T_x)
    \/ \E i \in TaskIds, o \in {"ok", "timeout"} : FetchDone(i, o)
    \/ \E i \in TaskIds : IconUpdated(i)
    \/ \E i \in TaskIds : StorageGet(i)
    \/ \E i \in TaskIds : StorageSet(i)
    \/ \E i, j \in TaskIds : ContextMenuResult(i, j)

SpecContent == Init /\ [][NextContent]_vars

\* the requests of the content scripts from their arrival to sendResponse,
\* the retrieval step by step; the manifest host does not stall, the
\* validator owes nothing
NextRespond ==
    \/ \E i \in TaskIds, p \in Pages, u \in PageUris : ScanLookup(i, p, u)
    \/ \E i \in TaskIds : TimerFires(i)
    \/ \E i \in TaskIds, o \in {"network", "status"} : FetchFails(i, o)
    \/ \E i \in TaskIds : ResponseArrives(i)
    \/ \E i \in TaskIds, o \in {"ok", "body"} : BodyRead(i, o)
    \/ \E i \in TaskIds, ok \in BOOLEAN, d \in ValidatorLists :
           ValidatorDone(i, ok, d)
    \/ \E i \in TaskIds : IconUpdated(i)
    \/ \E i \in TaskIds : StorageGet(i)
    \/ \E i \in TaskIds : StorageSet(i)

SpecRespond ==
    /\ Init /\ [][NextRespond]_vars
    /\ \A i \in TaskIds :
           WF_vars(TimerFires(i)) /\ WF_vars(BodyRead(i, "body"))

\* a same-domain request of the page scan answered by the validator with
\* every status list: the toolbar icon and the in-page popup of one result
NextPresent ==
    \/ ScanLookup(1, T_same, U_exclaim)
    \/ FetchDone(1, "ok")
    \/ \E ok \in BOOLEAN, d \in StatusLists : ValidatorDone(1, ok, d)
    \/ IconUpdated(1)
    \/ StorageGet(1)
    \/ StorageSet(1)

SpecPresent == Init /\ [][NextPresent]_vars

\* page scans in flight while the user switches tabs
NextActive ==
    \/ \E i \in TaskIds, p \in Pages, u \in PageUris : ScanLookup(i, p, u)
    \/ \E i \in TaskIds, o \in {"ok", "timeout"} : FetchDone(i, o)
    \/ \E i \in TaskIds, ok \in BOOLEAN, d \in {<<Entry("found")>>} :
           ValidatorDone(i, ok, d)
    \/ \E i \in TaskIds : IconUpdated(i)
    \/ \E i \in TaskIds : StorageGet(i)
    \/ \E i \in TaskIds : StorageSet(i)
    \/ \E i \in TaskIds, p \in Pages : TabActivated(i, p)
    \/ \E i \in TaskIds : ActivatedRead(i)
    \/ \E c \in iconCalls : IconSet(c)

SpecActive == Init /\ [][NextActive]_vars

\* the cache after an earlier lookup stored an Account result for
\* trust://ac.me/ on the page https://x.com/Acme
InitCached ==
    /\ task = [i \in TaskIds |-> IdleTask]
    /\ trustResults =
          written(EmptyMap, T_x, U_slash,
                  CHOOSE r \in TabResults : r.type = "account")
    /\ firstKeys = firstWritten(EmptyMap, EmptyMap, T_x, U_slash)
    /\ clickedText = <<>>
    /\ menuVisible = TRUE
    /\ served = CacheManifest
    /\ lastWriter = 0
    /\ InitPages

\* results stored for a page that has one already, and tab activations
NextRecent ==
    \/ \E p \in Pages, u \in StoreKeys, r \in TabResults : StoreCall(1, p, u, r)
    \/ IconUpdated(1)
    \/ StorageGet(1)
    \/ StorageSet(1)
    \/ \E i \in TaskIds, p \in Pages : TabActivated(i, p)
    \/ \E i \in TaskIds : ActivatedRead(i)
    \/ \E c \in iconCalls : IconSet(c)

SpecRecent == InitCached /\ [][NextRecent]_vars

(***************************************************************************)
(* Claims                                                                  *)
(***************************************************************************)

\* the cache has an entry under trustResults[url][k]
HasSlot(m, url, k) == HasKey(m, url) /\ HasKey(m[url], k)

\* C1: after the put of a page-scan lookup for trust URI u from a tab at URL p
\* (its write is the last one performed), trustResults[p][u] is its result r:
\* the key is the (pageUrl, trustUri) pair of the request.
C1_ScanStoredUnderRequestKey ==
    \A i \in TaskIds :
        (lastWriter = i /\ task[i].origin = "scan") =>
            /\ HasSlot(trustResults, task[i].tabUrl, task[i].trustUri)
            /\ trustResults[task[i].tabUrl][task[i].trustUri] = task[i].result

\* C2: an entry written by a finished put is missing from the cache only when
\* another finished put wrote back a map it had read before that entry was
\* written: entries are lost by interleaved puts, and in no other way.
C2_LostOnlyByInterleaving ==
    \A i \in TaskIds :
        task[i].stored =>
            \/ HasSlot(trustResults, task[i].tabUrl, task[i].key)
            \/ \E j \in TaskIds \ {i} : task[j].stored /\ i \in task[j].missed

\* C2 (witness): two puts for different trust URIs on the same page have both
\* finished and the cache holds the entry of only one of them.
C2_LostUpdate ==
    \E i, j \in TaskIds :
        /\ i # j /\ task[i].stored /\ task[j].stored
        /\ task[i].tabUrl = task[j].tabUrl /\ task[i].key # task[j].key
        /\ ~HasSlot(trustResults, task[i].tabUrl, task[i].key)
        /\ HasSlot(trustResults, task[j].tabUrl, task[j].key)

\* C3: two lookups of the same (pageUrl, trustUri) each issue their own
\* manifest fetch, and once both are stored (one of them wrote last) the slot
\* trustResults[pageUrl][trustUri] holds the result of the one that wrote last.
C3_LastWriterWins ==
    \A i, j \in TaskIds :
        ( /\ i # j
          /\ task[i].tabUrl = task[j].tabUrl /\ task[i].trustUri = task[j].trustUri
          /\ task[i].stored /\ task[j].stored
          /\ lastWriter = j ) =>
            /\ task[i].gets = 1 /\ task[j].gets = 1
            /\ HasSlot(trustResults, task[j].tabUrl, task[j].trustUri)
            /\ trustResults[task[j].tabUrl][task[j].trustUri] = task[j].result

(***************************************************************************)
(* What the specification says of the matching, stated without the         *)
(* functions of xpoc-lib.ts                                                *)
(***************************************************************************)

\* a hostname with a leading "www." removed
StripLeadingWww(h) ==
    IF StartsWith(h, WWW) THEN SubSeq(h, Len(WWW) + 1, Len(h)) ELSE h

\* the page domain: the hostname of the page URL without a leading "www."
PageDomain(tabUrl) == StripLeadingWww(UrlHostname(tabUrl))

\* the host named by a trust URI trust://<host>[/<path>][!]
DomainOfTrustUri(u) ==
    LET rest == SubSeq(u, Len(TRUST) + 1, Len(u))
    IN ToLowerCase(SubSeq(rest, 1, FirstOf(rest, {"/", "!"}) - 1))

\* the base URL of a URL: the query removed, then one trailing slash removed
BaseOf(url) ==
    LET noQuery == SubSeq(url, 1, FirstOf(url, {"?"}) - 1)
    IN IF EndsWith(noQuery, <<"/">>)
       THEN SubSeq(noQuery, 1, Len(noQuery) - 1) ELSE noQuery

\* the social entry is an account URL of a platform of the registry
Recognized(e) == \E p \in Platforms : isValidAccountUrl(p, e)

PlatformOf(e) == CHOOSE p \in Platforms : isValidAccountUrl(p, e)

\* recognized platform: the page is an account URL of the entry's platform
\* and the two handles are equal ignoring letter case
HandleMatches(tabUrl, e) ==
    /\ isValidAccountUrl(PlatformOf(e), tabUrl)
    /\ ToLowerCase(HandleOf(tabUrl)) = ToLowerCase(HandleOf(e))

\* unrecognized platform: the entry is a URL and the base URLs are equal
BaseMatches(tabUrl, e) == UrlParses(e) /\ BaseOf(tabUrl) = BaseOf(e)

EntryMatches(tabUrl, e) ==
    IF Recognized(e) THEN HandleMatches(tabUrl, e) ELSE BaseMatches(tabUrl, e)

\* the Account result the specification gives for a matching social entry
ExpectedSocial(e, u) ==
    [type |-> "account", name |-> DomainOfTrustUri(u),
     baseurl |-> DomainOfTrustUri(u), version |-> "trust.txt-draft00",
     account |-> IF Recognized(e)
                 THEN [account |-> HandleOf(e),
                       platform |-> PlatformOf(e).DisplayName]
                 ELSE [account |-> e, platform |-> <<>>]]

\* the Account result the specification gives for a member match
ExpectedMember(tabUrl, u) ==
    [type |-> "account", name |-> PageDomain(tabUrl),
     baseurl |-> getUrlFromUri(u), version |-> "trust.txt-draft00",
     account |-> [account |-> PageDomain(tabUrl), platform |-> s_member]]

\* the social and member entries of the manifest served
SocialEntries == parseTrustTxt(served).social

MemberEntries == parseTrustTxt(served).member

\* the positions of the social entries that match the page
MatchingSocial(tabUrl) ==
    {k \in 1..Len(SocialEntries) : EntryMatches(tabUrl, SocialEntries[k])}

MemberContains(tabUrl) ==
    \E k \in 1..Len(MemberEntries) :
        Includes(MemberEntries[k], PageDomain(tabUrl))

\* the call of lookupTrustUri has ended, by a return or by an exception
Ended(i) == task[i].pc \in {"done", "rejected"}

\* the call ended in the cross-domain branch
EndedCross(i) == Ended(i) /\ task[i].branch = "cross"

\* C4: lookupTrustUri never rejects: for every page URL, trust URI, network
\* outcome and manifest content it ends with a value whose type is one of
\* 'account', 'multiple', 'notFound', 'error', and every failure of the fetch
\* (and a trust URI that is none) is returned as the 'error' variant.
C4_NeverRejects ==
    \A i \in TaskIds :
        /\ task[i].pc # "rejected"
        /\ task[i].pc = "done" =>
               task[i].result.type \in {"account", "multiple", "notFound", "error"}
        /\ (task[i].pc = "done" /\ task[i].outcome \notin {"none", "ok"}) =>
               task[i].result.type = "error"
        /\ (task[i].pc = "done" /\ ~StartsWith(task[i].trustUri, TRUST)) =>
               task[i].result.type = "error"

\* C5: in the cross-domain branch the outcome is decided in a fixed order:
\* when a social entry matches the page the result is the Account of the first
\* matching social entry in manifest order, also when a member entry matches;
\* otherwise, when a member entry matches, an Account with platform 'member';
\* otherwise NotFound whose baseUrl is the trust URI as given.
C5_FixedOrder ==
    \A i \in TaskIds :
        EndedCross(i) =>
            LET t == task[i]
                hits == MatchingSocial(t.tabUrl)
                first == CHOOSE k \in hits : \A j \in hits : k <= j
            IN IF hits # {}
               THEN t.result = ExpectedSocial(SocialEntries[first], t.trustUri)
               ELSE IF MemberContains(t.tabUrl)
               THEN /\ t.result.type = "account"
                    /\ t.result.account.platform = s_member
               ELSE t.result = [type |-> "notFound", baseurl |-> t.trustUri]

\* C6: a social entry on a recognized platform is accepted by the matching
\* exactly when the page is an account URL of that platform whose canonical
\* handle equals the entry's ignoring letter case; when such an entry is the
\* first of the manifest the lookup returns Account with name = baseurl = the
\* manifest's hostname, version 'trust.txt-draft00', account = the entry's
\* canonical handle and platform = the display name, and every Account result
\* with a platform name comes from a recognized entry matching in this way.
C6_RecognizedPlatformMatch ==
    \A i \in TaskIds :
        EndedCross(i) =>
            LET t == task[i]
                social == SocialEntries
            IN /\ \A k \in 1..Len(social) :
                      Recognized(social[k]) =>
                          ( socialCallback(getBaseURL(t.tabUrl), social[k]) = "true"
                            <=> HandleMatches(t.tabUrl, social[k]) )
               /\ ( /\ social # <<>>
                    /\ Recognized(social[1])
                    /\ HandleMatches(t.tabUrl, social[1]) ) =>
                      /\ t.pc = "done"
                      /\ t.result = ExpectedSocial(social[1], t.trustUri)
               /\ ( /\ t.pc = "done"
                    /\ t.result.type = "account"
                    /\ t.result.account.platform \notin {<<>>, s_member} ) =>
                      \E k \in 1..Len(social) :
                          /\ Recognized(social[k])
                          /\ HandleMatches(t.tabUrl, social[k])
                          /\ t.result = ExpectedSocial(social[k], t.trustUri)

\* C6 (witness): the page https://x.com/Acme was resolved against a manifest
\* listing social=https://x.com/ACME, and the result is the Account of
\* platform X with the handle of the entry.
C6_HandleHit ==
    \E i \in TaskIds :
        /\ task[i].pc = "done" /\ task[i].branch = "cross"
        /\ task[i].tabUrl = T_x
        /\ task[i].result.type = "account"
        /\ task[i].result.account = [account |-> <<"A", "C", "M", "E">>,
                                     platform |-> <<"X">>]
        /\ task[i].result.name = ACME

\* C7: a social entry of no recognized platform is accepted by the matching
\* exactly when it is a URL whose base URL (origin + path, query removed, one
\* trailing slash removed) equals the base URL of the page; when such an entry
\* is the first of the manifest the lookup returns Account with platform ''
\* and account = the entry as written; and a result has platform '' only when
\* it comes from an unrecognized entry matching in this way.
C7_UnrecognizedPlatformMatch ==
    \A i \in TaskIds :
        EndedCross(i) =>
            LET t == task[i]
                social == SocialEntries
            IN /\ \A k \in 1..Len(social) :
                      ~Recognized(social[k]) =>
                          ( socialCallback(getBaseURL(t.tabUrl), social[k]) = "true"
                            <=> BaseMatches(t.tabUrl, social[k]) )
               /\ ( /\ social # <<>>
                    /\ ~Recognized(social[1])
                    /\ BaseMatches(t.tabUrl, social[1]) ) =>
                      /\ t.pc = "done"
                      /\ t.result = ExpectedSocial(social[1], t.trustUri)
                      /\ t.result.account = [account |-> social[1],
                                             platform |-> <<>>]
               /\ ( /\ t.pc = "done"
                    /\ t.result.type = "account"
                    /\ t.result.account.platform = <<>> ) =>
                      \E k \in 1..Len(social) :
                          /\ ~Recognized(social[k])
                          /\ BaseMatches(t.tabUrl, social[k])
                          /\ t.result.account.account = social[k]

\* C7 (witness): the page https://b.io/me/ was resolved against a manifest
\* listing social=https://b.io/me?r, and the result is an Account with
\* platform '' whose account is the entry as written.
C7_BaseUrlHit ==
    \E i \in TaskIds :
        /\ task[i].pc = "done" /\ task[i].branch = "cross"
        /\ task[i].tabUrl = T_blog
        /\ task[i].result.type = "account"
        /\ task[i].result.account =
               [account |-> HTTPS \o B_IO \o <<"/", "m", "e", "?", "r">>,
                platform |-> <<>>]

\* C8: when no social entry matches in the cross-domain branch, the result is
\* Account{name: pageDomain, baseUrl: manifest URL, account: pageDomain,
\* platform: 'member'} if and only if some member entry contains pageDomain
\* as a substring.
C8_MemberIffContains ==
    \A i \in TaskIds :
        (EndedCross(i) /\ MatchingSocial(task[i].tabUrl) = {}) =>
            ( task[i].result = ExpectedMember(task[i].tabUrl, task[i].trustUri)
              <=> MemberContains(task[i].tabUrl) )

\* the hostname of the page is a proper subdomain of a member entry
SubdomainOfMember(tabUrl) ==
    \E k \in 1..Len(MemberEntries) :
        EndsWith(UrlHostname(tabUrl), <<".">> \o MemberEntries[k])

\* C9 (as stated): when the page's domain is a subdomain of a domain listed
\* in a member entry, the manifest is on another domain and no social entry
\* matches, the lookup returns Account with platform 'member'.
C9_SubdomainIsMember ==
    \A i \in TaskIds :
        ( /\ EndedCross(i)
          /\ MatchingSocial(task[i].tabUrl) = {}
          /\ SubdomainOfMember(task[i].tabUrl) ) =>
            /\ task[i].result.type = "account"
            /\ task[i].result.account.platform = s_member

\* C9 (amended): when the page's domain is a subdomain of a domain listed in a
\* member entry, no member entry contains the page's domain, the manifest is
\* on another domain and no social entry matches, the lookup does not return
\* an Account: a value it returns is NotFound with the trust URI as baseUrl.
C9_SubdomainNotFound ==
    \A i \in TaskIds :
        ( /\ EndedCross(i)
          /\ MatchingSocial(task[i].tabUrl) = {}
          /\ SubdomainOfMember(task[i].tabUrl)
          /\ ~MemberContains(task[i].tabUrl) ) =>
            /\ task[i].result.type # "account"
            /\ task[i].pc = "done" =>
                   task[i].result = [type |-> "notFound",
                                     baseurl |-> task[i].trustUri]

\* C9 (witness): the page https://s.e.org/p was resolved against a manifest
\* on ac.me whose only entry is member=e.org, and the result is NotFound.
C9_SubdomainMiss ==
    \E i \in TaskIds :
        /\ task[i].pc = "done" /\ task[i].branch = "cross"
        /\ task[i].tabUrl = T_sub
        /\ SocialEntries = <<>>
        /\ MemberEntries = <<E_ORG>>
        /\ task[i].result.type = "notFound"

\* C10: after a successful manifest fetch the same-domain branch is taken
\* exactly when the hostname of the page URL with only a leading 'www.'
\* removed equals the hostname of the manifest URL; otherwise the
\* cross-domain branch is taken.
C10_BranchByLeadingWww ==
    \A i \in TaskIds :
        task[i].branch # "none" =>
            /\ task[i].outcome = "ok"
            /\ task[i].branch = "same" <=>
                   PageDomain(task[i].tabUrl) = DomainOfTrustUri(task[i].trustUri)

\* C11: in the same-domain branch, when the validator answers with a list L
\* of {status, domain, message} entries, the lookup returns Multiple whose
\* list is L itself: same length (zero included), same order, same values.
C11_ListVerbatim ==
    \A i \in TaskIds :
        (task[i].pc = "done" /\ task[i].validator = "ok") =>
            task[i].result = [type |-> "multiple", list |-> task[i].answer]

\* C12: in the same-domain branch, when the call of the validator fails
\* before any entry was produced, the lookup still returns Multiple, and its
\* list is empty.
C12_EmptyOnFailure ==
    \A i \in TaskIds :
        (task[i].pc = "done" /\ task[i].validator = "failed") =>
            /\ task[i].result.type = "multiple"
            /\ task[i].result.list = <<>>

\* C13: a Multiple result produced while the validator was unavailable is
\* handled by every caller as a failed resolution: the toolbar icon is the
\* Invalid icon, and what the content script renders from it has the Invalid
\* icon, the error colour and the error title; every caller runs to its end.
C13_UnavailableIsFailure ==
    \A i \in TaskIds :
        task[i].validator = "failed" =>
            /\ task[i].pc # "rejected"
            /\ task[i].icon \in {"none", INVALID_TYPE}
            /\ task[i].pc = "done" => task[i].icon = INVALID_TYPE
            /\ task[i].responded =>
                   /\ task[i].popup.title = "Trust URI Error"
                   /\ task[i].popup.color = ERROR_COLOR
                   /\ task[i].popup.icon = INVALID_URL
            /\ getIconType(task[i].result.list) = INVALID_TYPE
            /\ getIconUrl(task[i].result.list) = INVALID_URL

\* C13 (witness): a lookup whose validator call failed was stored, the
\* toolbar icon asked for is the Invalid icon and the popup is the error popup.
C13_FailureRendered ==
    \E i \in TaskIds :
        /\ task[i].validator = "failed" /\ task[i].pc = "done"
        /\ task[i].stored /\ task[i].icon = INVALID_TYPE
        /\ task[i].popup.title = "Trust URI Error"

s_timeout == <<"t", "i", "m", "e", "o", "u", "t">>

\* C14: whenever the manifest fetch fails (timeout, transport failure,
\* non-success status, unreadable body) the lookup returns Error whose
\* baseurl is the trust URI as given and whose message describes the failure
\* (it contains 'timeout' for a timeout); no matching is attempted and the
\* validator is not contacted.
C14_FetchFailureIsError ==
    \A i \in TaskIds :
        task[i].outcome \notin {"none", "ok"} =>
            LET t == task[i]
            IN /\ t.pc = "done"
               /\ t.result.type = "error"
               /\ t.result.baseurl = t.trustUri
               /\ StartsWith(t.result.message, MSG_PREFIX)
               /\ Len(t.result.message) > Len(MSG_PREFIX)
               /\ t.outcome = "timeout" => Includes(t.result.message, s_timeout)
               /\ t.outcome # "timeout" => ~Includes(t.result.message, s_timeout)
               /\ t.branch = "none" /\ t.posts = 0 /\ t.gets = 1

\* C14 (witness): the manifest fetch for trust://ac.me/ timed out and the
\* lookup returned Error with baseurl trust://ac.me/ and a timeout message.
C14_TimeoutError ==
    \E i \in TaskIds :
        /\ task[i].pc = "done" /\ task[i].outcome = "timeout"
        /\ task[i].trustUri = U_slash
        /\ task[i].result.type = "error"
        /\ task[i].result.baseurl = U_slash
        /\ Includes(task[i].result.message, s_timeout)

\* C15: when the trust URI does not start with 'trust://' the lookup fails at
\* once: the result is Error with baseurl equal to the URI given, and neither
\* the manifest GET nor the validator POST is issued.
C15_InvalidUriFailsAtOnce ==
    \A i \in TaskIds :
        (task[i].pc # "idle" /\ ~StartsWith(task[i].trustUri, TRUST)) =>
            LET t == task[i]
            IN /\ t.pc = "done"
               /\ t.result.type = "error"
               /\ t.result.baseurl = t.trustUri
               /\ t.gets = 0 /\ t.posts = 0
               /\ t.outcome = "none" /\ t.branch = "none"

\* C15 (witness): the lookup of https://ac.me ended with Error and no request.
C15_InvalidUriError ==
    \E i \in TaskIds :
        /\ task[i].pc = "done" /\ task[i].trustUri = U_invalid
        /\ task[i].result = [type |-> "error", baseurl |-> U_invalid,
                              message |-> invalidUriError(U_invalid)]
        /\ task[i].gets = 0

\* the manifest retrieval of the task is pending
Retrieving(i) == task[i].pc \in {"fetching", "reading"}

\* C16: a manifest retrieval that has not completed when the timeout elapses
\* is aborted and ends with a timeout error: no retrieval stays pending
\* forever, whether the server never answers or stalls while sending the body.
C16_NoRetrievalPendingForever ==
    \A i \in TaskIds : Retrieving(i) ~> ~Retrieving(i)

\* C17: for every trust URI trust://<domain>[/<path>][!] the manifest is
\* requested from https://<domain>/.well-known/trust.txt: the scheme, the
\* optional path and the trailing terminator or slash are dropped.
C17_ManifestAtDomainRoot ==
    \A i \in TaskIds :
        (task[i].pc # "idle" /\ StartsWith(task[i].trustUri, TRUST)) =>
            task[i].requested =
                HTTPS \o DomainOfTrustUri(task[i].trustUri) \o WELL_KNOWN

\* C18: each lookup issues exactly one manifest GET when the URI is valid (and
\* none otherwise) and at most one validator POST; the POST is issued only in
\* the same-domain branch, that is only after the manifest was fetched
\* successfully and the page domain equals the manifest domain.
C18_OneGetAtMostOnePost ==
    \A i \in TaskIds :
        task[i].pc # "idle" =>
            LET t == task[i]
            IN /\ t.gets = IF StartsWith(t.trustUri, TRUST) THEN 1 ELSE 0
               /\ t.posts <= 1
               /\ t.posts = 1 =>
                      /\ t.outcome = "ok"
                      /\ t.branch = "same"
                      /\ PageDomain(t.tabUrl) = DomainOfTrustUri(t.trustUri)

\* the statuses present in a list
StatusesOf(list) == {list[k].status : k \in 1..Len(list)}

\* the classification the specification gives
ExpectedIcon(list) ==
    IF "found" \notin StatusesOf(list) THEN INVALID_TYPE
    ELSE IF StatusesOf(list) \cap {"not found", "error"} = {} THEN CHECKMARK_TYPE
    ELSE WARNING_TYPE

IsNotFoundStatus(e) == e.status # "found"

\* C19: getIconType classifies every status list, the empty list and lists
\* with unknown statuses included: Invalid when no entry is 'found',
\* Checkmark when some entry is 'found' and none is 'not found' or 'error',
\* Warning when some entry is 'found' and some is 'not found' or 'error'; so
\* adding a 'not found' or 'error' entry to a Checkmark list gives Warning and
\* removing every 'found' entry gives Invalid.
C19_SeverityReducer ==
    \A i \in TaskIds :
        (task[i].icon # "none" /\ task[i].result.type = "multiple") =>
            LET list == task[i].result.list
            IN /\ task[i].icon = ExpectedIcon(list)
               /\ task[i].icon \in {INVALID_TYPE, CHECKMARK_TYPE, WARNING_TYPE}
               /\ task[i].icon = CHECKMARK_TYPE =>
                      /\ \A st \in {"not found", "error"} :
                             getIconType(Append(list, Entry(st))) = WARNING_TYPE
                      /\ getIconType(SelectSeq(list, IsNotFoundStatus))
                             = INVALID_TYPE

\* C19 (witness): the toolbar icon was updated for a list with one 'found'
\* and one 'not found' entry, and it is the Warning icon.
C19_WarningShown ==
    \E i \in TaskIds :
        /\ task[i].result = [type |-> "multiple",
                              list |-> <<Entry("found"), Entry("not found")>>]
        /\ task[i].icon = WARNING_TYPE

\* the names of the variables of a trust.txt file
ListVariables ==
    {s_member, s_belongto, s_control, s_controlledby, s_social, s_vendor,
     s_customer, s_disclosure, s_contact}

KnownVariables == ListVariables \cup {s_datatrainingallowed}

\* the text of a line before its first '=' and between its first and second
BeforeEquals(t) == SubSeq(t, 1, FirstOf(t, {"="}) - 1)

AfterEquals(t) ==
    LET rest == SubSeq(t, FirstOf(t, {"="}) + 1, Len(t))
    IN SubSeq(rest, 1, FirstOf(rest, {"="}) - 1)

\* the variable name a line is about
VariableOf(line) == ToLowerCase(Trim(BeforeEquals(Trim(line))))

\* a line the specification says contributes nothing: blank, a comment,
\* without variable or without value, or with an unknown variable name
Skipped(line) ==
    LET t == Trim(line)
    IN \/ t = <<>>
       \/ Head(t) = "#"
       \/ BeforeEquals(t) = <<>>
       \/ AfterEquals(t) = <<>>
       \/ VariableOf(line) \notin KnownVariables

Kept(line) == ~Skipped(line)

AddsEntry(line) == Kept(line) /\ VariableOf(line) \in ListVariables

\* the number of entries in the nine lists of a parsed file
Entries(f) ==
    Len(f.member) + Len(f.belongto) + Len(f.control) + Len(f.controlledby)
    + Len(f.social) + Len(f.vendor) + Len(f.customer) + Len(f.disclosure)
    + Len(f.contact)

\* C20: parseTrustTxt is total: for every text it returns a record with the
\* nine lists and the boolean; blank lines, lines beginning with '#', lines
\* without variable or value and lines with an unknown variable contribute
\* nothing and do not stop the parsing of the lines after them: the record is
\* the one parsed from the other lines alone, one entry for each of them.
C20_ParseTotalSkipsLines ==
    \A i \in TaskIds :
        task[i].outcome = "ok" =>
            LET f == task[i].file
                lines == Split(served, "\n")
            IN /\ DOMAIN f = DOMAIN EmptyTrustTxtFile
               /\ f.datatrainingallowed \in BOOLEAN
               /\ f = parseTrustTxt(JoinLines(SelectSeq(lines, Kept)))
               /\ Entries(f) = Len(SelectSeq(lines, AddsEntry))

\* C20 (witness): the manifest 'foo=x' / ' Member = e.org ' was parsed: the
\* line with the unknown variable left nothing and the line after it was read.
C20_ParsedPastUnknown ==
    \E i \in TaskIds :
        /\ task[i].outcome = "ok"
        /\ served = JoinLines(<<P_unknown, P_spaced>>)
        /\ task[i].file = [EmptyTrustTxtFile EXCEPT !.member = <<E_ORG>>]

\* the whole text of a line after its first '=', trimmed
WholeValue(line) ==
    LET t == Trim(line)
    IN Trim(SubSeq(t, FirstOf(t, {"="}) + 1, Len(t)))

\* the whole values of the lines of a category, in the order of the lines
ValuesOf(lines, v) ==
    LET sel == SelectSeq(lines, LAMBDA l : AddsEntry(l) /\ VariableOf(l) = v)
    IN [k \in 1..Len(sel) |-> WholeValue(sel[k])]

\* the list of a category in a parsed file
ListOf(f, v) ==
    CASE v = s_member -> f.member [] v = s_belongto -> f.belongto
      [] v = s_control -> f.control [] v = s_controlledby -> f.controlledby
      [] v = s_social -> f.social [] v = s_vendor -> f.vendor
      [] v = s_customer -> f.customer [] v = s_disclosure -> f.disclosure
      [] v = s_contact -> f.contact

\* C21: for every manifest line '<category>=<value>' with a known category
\* name in any letter case, the parsed list of the category holds the whole
\* text after the separator, trimmed, also when that text contains '=', and
\* the entries of each list are in the order of their lines.
C21_WholeValueInOrder ==
    \A i \in TaskIds :
        task[i].outcome = "ok" =>
            \A v \in ListVariables :
                ListOf(task[i].file, v) = ValuesOf(Split(served, "\n"), v)

\* the call of task i has a result (a value returned or an exception)
HasResult(i) == task[i].result # NoResult

Completed(i) ==
    /\ task[i].origin \in {"scan", "menu"}
    /\ HasResult(i) /\ task[i].pc # "rejected"

\* the lookup was asked for by a menu click and ended with NotFound or Error
MenuFailure(i) ==
    /\ task[i].origin = "menu"
    /\ task[i].result.type \in {"notFound", "error"}

\* C23 (as stated): every completed resolution, of the page scan or of a
\* menu click and whatever its variant, is followed by a write of its result
\* to the cache.
C23_EveryResolutionWritten ==
    \A i \in TaskIds : Completed(i) ~> task[i].stored

\* C23 (amended): every completed resolution of the page scan, and every
\* resolution of a menu click that ended with Account or Multiple, is followed
\* by a write of its result to the cache; the result of a menu click that
\* ended with NotFound or Error is returned to the page and its handler
\* never writes it.
C23_WrittenUnlessMenuFailure ==
    /\ \A i \in TaskIds : (Completed(i) /\ ~MenuFailure(i)) ~> task[i].stored
    /\ [](\A i \in TaskIds :
              MenuFailure(i) => (task[i].pc = "done" /\ ~task[i].stored))

\* C23 (witness): a menu click on trust://ac.me/ ended with a timeout Error
\* that was returned and not written, and a page scan that ended with a
\* timeout Error was written.
C23_MenuErrorNotWritten ==
    \E i, j \in TaskIds :
        /\ task[i].origin = "menu" /\ task[i].trustUri = U_slash
        /\ task[i].result.type = "error" /\ task[i].pc = "done"
        /\ task[i].responded /\ ~task[i].stored
        /\ task[j].origin = "scan" /\ task[j].result.type = "error"
        /\ task[j].stored /\ lastWriter = j

\* the calls of updateActionIcon made by the listener run i have all ended
\* and the toolbar shows what the last of them to end has set
ToolbarSetBy(i) ==
    /\ task[i].origin = "activated" /\ task[i].pc = "done"
    /\ \A c \in iconCalls : c.by # i
    /\ actionIcon.by = i

\* C24: the readers of the cache test that the cache has an entry for the
\* tab URL before they use it. Without an entry the tab-activation listener
\* dereferences no result and asks for no icon but 'unknown', which the
\* toolbar then shows, and the popup lists no result; with a stored NotFound
\* or Error the listener asks for the Invalid icon, which the toolbar then
\* shows, and the popup does not show its 'no result' text.
C24_PresenceTested ==
    \A i \in TaskIds :
        /\ (task[i].origin = "activated" /\ task[i].pc = "done") =>
              LET t == task[i]
              IN IF ~HasKey(t.snap, t.tabUrl)
                 THEN /\ t.result = NoResult /\ t.icon = "none"
                      /\ ToolbarSetBy(i) => actionIcon.path = UNKNOWN_TYPE
                 ELSE /\ t.result = t.snap[t.tabUrl][t.key]
                      /\ t.result.type \in {"notFound", "error"} =>
                             /\ t.icon = INVALID_TYPE
                             /\ ToolbarSetBy(i) =>
                                    actionIcon.path = INVALID_TYPE
        /\ task[i].origin = "popup" =>
              ( task[i].listed = "no-origin"
                <=> ~HasKey(task[i].snap, task[i].tabUrl) )

\* no 'autoScanUpdated' message is in flight
AllDelivered == \A p \in Pages : inbox[p] = <<>>

\* C25: automatic scanning follows the option: the first value the flag gets
\* (at install) is true; the scanner of a page starts when the page loads
\* exactly when the flag is true then; and in every state reached by option
\* toggles and tab switches in which all messages are delivered, a tab whose
\* scanner is running implies that the stored flag is true.
C25_ScanFollowsOption ==
    /\ [][ (autoVerifyTrustUris = "undefined" /\ autoVerifyTrustUris' # "undefined")
             => autoVerifyTrustUris' = "true" ]_vars
    /\ [][ \A p \in Pages :
               (scanner[p] = "unloaded" /\ scanner'[p] # "unloaded")
                   => (scanner'[p] = "running" <=> autoVerifyTrustUris = "true") ]_vars
    /\ [](AllDelivered =>
              \A p \in Pages : scanner[p] = "running" => autoVerifyTrustUris = "true")

\* the (url, trustUri) pairs a map has an entry for
SlotsOf(m) == UNION { {<<url, k>> : k \in DOMAIN m[url]} : url \in DOMAIN m }

\* C26: the map storeTrustResult writes back is the map it read with
\* trustResults[url][trustUri] set to the new result: no other entry is
\* removed or altered. So a put that read the cache as it still is when it
\* writes (no put in between) leaves every other entry of the cache in place
\* with its value.
C26_WriteBackKeepsOthers ==
    [][ trustResults' # trustResults =>
          \E i \in TaskIds :
              LET t == task[i]
                  slot == <<t.tabUrl, t.key>>
              IN /\ t.pc = "set" /\ task'[i].pc = "done"
                 /\ SlotsOf(trustResults') = SlotsOf(t.snap) \cup {slot}
                 /\ trustResults'[t.tabUrl][t.key] = t.result
                 /\ \A s \in SlotsOf(t.snap) \ {slot} :
                        trustResults'[s[1]][s[2]] = t.snap[s[1]][s[2]]
                 /\ t.snap = trustResults =>
                        \A s \in SlotsOf(trustResults) \ {slot} :
                            /\ HasSlot(trustResults', s[1], s[2])
                            /\ trustResults'[s[1]][s[2]] = trustResults[s[1]][s[2]]
      ]_vars

\* C26 (witness): two puts on the same page under different trust URIs have
\* finished one after the other, and the cache holds the entries of both
\* with the results they wrote.
C26_BothEntriesKept ==
    \E i, j \in TaskIds :
        /\ i # j /\ task[i].stored /\ task[j].stored /\ lastWriter = j
        /\ task[i].tabUrl = task[j].tabUrl /\ task[i].key # task[j].key
        /\ task[i].result # task[j].result
        /\ HasSlot(trustResults, task[i].tabUrl, task[i].key)
        /\ trustResults[task[i].tabUrl][task[i].key] = task[i].result
        /\ trustResults[task[j].tabUrl][task[j].key] = task[j].result

\* the call of lookupTrustUri by task i is suspended at one of its awaits
Suspended(i) == task[i].pc \in {"fetching", "reading", "validating"}

\* C27: every call of lookupTrustUri eventually returns a result, also in the
\* same-domain branch when the validator never responds: no call stays
\* suspended forever.
C27_EveryCallReturns ==
    \A i \in TaskIds : Suspended(i) ~> task[i].pc = "done"

\* the grammar of a trust URI: 'trust://', a domain of one or more domain
\* characters, optionally '/' and path characters, optionally a final '!'
IsTrustUri(s) ==
    /\ s # undefined
    /\ StartsWith(s, TRUST)
    /\ LET body == DropSuffix(SubSeq(s, Len(TRUST) + 1, Len(s)), <<"!">>)
           k == FirstOf(body, {"/"})
       IN /\ k > 1
          /\ \A n \in 1..(k - 1) : body[n] \in DomainChars
          /\ \A n \in k..Len(body) : body[n] \notin NonPathChars

\* C28: the 'Verify Trust URI link' item is visible only when the text last
\* right-clicked is a trust URI: in every state reachable from the start of
\* the extension, before any right-click included, a visible item implies
\* that clickedText is a string of the trust URI grammar, and every menu
\* click verifies such a string.
C28_VisibleOnlyForTrustUri ==
    /\ menuVisible => IsTrustUri(clickedText)
    /\ \A i \in TaskIds : task[i].origin = "menu" => IsTrustUri(task[i].trustUri)

\* C29: every 'lookupTrustUri' request the content script sends carries a
\* trustUri that is a string of the trust URI grammar, whether addIcon was
\* called by the scanner's add callback or by the handler of the context-menu
\* result on the remembered contextTarget.
C29_RequestsCarryTrustUri ==
    \A i \in TaskIds :
        task[i].origin = "scan" /\ task[i].pc # "idle"
            => IsTrustUri(task[i].trustUri)

\* the background received the 'lookupTrustUri' message that task i handles
Received(i) == task[i].origin = "scan" /\ task[i].pc # "idle"

ClassOf(x) ==
    CASE x \in {INVALID_TYPE, INVALID_URL, ERROR_COLOR, "Trust URI Error"}
           -> "invalid"
      [] x \in {CHECKMARK_TYPE, CHECKMARK_URL, SUCCESS_COLOR, "Trust URI Match"}
           -> "checkmark"
      [] x \in {WARNING_TYPE, WARNING_URL, WARNING_COLOR, "Trust URI Warning"}
           -> "warning"
      [] OTHER -> "none"

\* the toolbar icon and the popup of the multiple result of task i are set
Presented(i) ==
    /\ task[i].result.type = "multiple"
    /\ task[i].icon # "none"
    /\ task[i].popup # NoPopup

\* C31: the four presentation reducers agree on every status list: for the
\* same list getIconType (toolbar icon), getIconUrl (in-page icon),
\* getPopUpColor and getPopUpMessage select the same one of the classes
\* Invalid, Checkmark and Warning.
C31_ReducersAgree ==
    \A i \in TaskIds :
        Presented(i) =>
            /\ ClassOf(task[i].icon) \in {"invalid", "checkmark", "warning"}
            /\ ClassOf(task[i].popup.icon) = ClassOf(task[i].icon)
            /\ ClassOf(task[i].popup.color) = ClassOf(task[i].icon)
            /\ ClassOf(task[i].popup.title) = ClassOf(task[i].icon)

\* C31 (witness): a list with a 'found' and an 'error' entry is presented
\* with the Warning icon in the toolbar and the Warning colour in the popup.
C31_WarningEverywhere ==
    \E i \in TaskIds :
        /\ Presented(i)
        /\ task[i].result.list = <<Entry("found"), Entry("error")>>
        /\ task[i].icon = WARNING_TYPE
        /\ task[i].popup.color = WARNING_COLOR

\* C32: when a tab whose URL has a cached result is activated, the toolbar
\* finally shows the icon of that result: once both updateActionIcon calls of
\* the listener have ended, whatever the order in which they end, the icon
\* on display is the result icon and not 'unknown'.
C32_ResultIconLast ==
    \A i \in TaskIds :
        (ToolbarSetBy(i) /\ HasKey(task[i].snap, task[i].tabUrl)) =>
            /\ task[i].icon = activatedIcon(task[i].result)
            /\ actionIcon.path = task[i].icon

\* nothing is in progress: no handler is suspended, no icon update is pending
Quiescent ==
    /\ iconCalls = {}
    /\ \A i \in TaskIds : task[i].pc \in {"idle", "done", "rejected"}

\* C33: in every quiescent state the toolbar icon corresponds to the active
\* tab: the icon on display was set for the URL of the active tab, so a
\* resolution that completes for a tab that is no longer active leaves the
\* icon of the active tab in place.
C33_IconOfActiveTab ==
    (Quiescent /\ actionIcon.by # 0) => task[actionIcon.by].tabUrl = activeTab

\* C34: the icon the tab-activation listener chooses equals the icon that
\* storeTrustResult set when the most recent result for the URL of the tab
\* was stored, also when results for several trust URIs are cached for the
\* page: if the last write to the cache before the listener read it was for
\* the tab's URL, the listener chooses the icon of that write.
C34_IconOfMostRecent ==
    \A i \in TaskIds :
        ( /\ task[i].origin = "activated" /\ task[i].pc = "done"
          /\ task[i].after # 0
          /\ task[task[i].after].tabUrl = task[i].tabUrl )
            => task[i].icon = task[task[i].after].icon

\* C35: the result of a context-menu verification is rendered on the node
\* that was right-clicked to start it, even if the user right-clicks another
\* node before the result message arrives: the node the 'contextMenuResult'
\* callback acts on is the node remembered when the menu item was clicked.
C35_RenderedOnClickedNode ==
    \A i \in TaskIds :
        (task[i].origin = "menu" /\ task[i].followed # "none")
            => task[i].shownOn = task[i].target

\* C36: in every reachable state of the cache, the states produced by
\* interleaved puts included, each per-page map present in trustResults has
\* at least one entry, and the entry under its first key, the one the
\* tab-activation listener reads, is a result object the listener knows.
C36_PageMapsNonEmpty ==
    \A url \in DOMAIN trustResults :
        /\ DOMAIN trustResults[url] # {}
        /\ url \in DOMAIN firstKeys
        /\ firstKeys[url] \in DOMAIN trustResults[url]
        /\ activatedIcon(trustResults[url][firstKeys[url]]) # "none"

\* C36 (witness): two puts on the same page were interleaved, the second to
\* write had read the cache before the first wrote, and the map of the page
\* holds the entry of the second under its first key.
C36_AfterInterleavedPuts ==
    \E i, j \in TaskIds :
        /\ i # j /\ task[i].stored /\ task[j].stored
        /\ i \in task[j].missed /\ lastWriter = j
        /\ task[i].tabUrl = task[j].tabUrl
        /\ HasKey(trustResults, task[j].tabUrl)
        /\ firstKeys[task[j].tabUrl] = task[j].key
        /\ trustResults[task[j].tabUrl][task[j].key] = task[j].result

====
